---- MODULE Spec2Model ----
(***************************************************************************)
(* The session / heartbeat state machine of the visitor tracker            *)
(* (src/src/visitor-tracker.tsx): visitor and session resolution, the      *)
(* mount and route-change effect, activity handling behind a               *)
(* leading+trailing throttle, the self-rescheduling heartbeat timer and    *)
(* visibility changes; the storage adapter (src/storage-utils.ts) and the  *)
(* transmitter (src/src/send.ts).                                          *)
(*                                                                         *)
(* Time.  The code only ever uses differences of Date.now() values, so     *)
(* every clock is kept as an age in milliseconds:                          *)
(*   session_data.idle  = Date.now() - session_data.last_activity          *)
(*   sinceLastExec      = Date.now() - throttleRef.current.lastExecTime    *)
(*   hbRemaining        = due time of the heartbeat timer - Date.now()     *)
(*   trailRemaining     = due time of the trailing timer - Date.now()      *)
(* "last_activity = Date.now()" is therefore "idle = 0".  Ages saturate    *)
(* just above the largest constant the code compares them with.  A timer   *)
(* callback may run at its due time or at any later time.  Expiry times   *)
(* in durable storage are followed in whole LongSteps; a handler takes no  *)
(* time.                                                                   *)
(*                                                                         *)
(* Session ids.  generateLightweightId draws 4 random bytes and the clock; *)
(* the model hands out 1, 2, 3, ... so that every minted id is new.        *)
(* session_id = 0 stands for "no session_data in sessionStorage".  While   *)
(* sessionStorage throws, an id or a start time that was minted is never   *)
(* stored and so never read back; the counters nextId and nextStamp move   *)
(* on only when the value was stored.                                      *)
(***************************************************************************)
EXTENDS Integers, Sequences, FiniteSets, TLC

VARIABLES
    production,        \* process.env.NODE_ENV === "production"
    botUA,             \* isbot(navigator.userAgent)
    hidden,            \* document.hidden
    mounted,           \* "no": rendered, effect not yet run; "yes"; "gone": unmounted
    fingerprint,       \* what generateVisitorId reads of navigator, screen and Intl
    sessionHow,        \* what the platform does to a sessionStorage call:
                       \* "ok", or "throws" (storage disabled or unavailable)
    documentReferrer,  \* document.referrer, <<>> if the document has none
    network,           \* "prompt": every send settles before the next step;
                       \* "hung": no send ever settles
    inFlight,          \* sends handed to the transmitter and not settled,
                       \* counted up to MaxInFlight
    listeners,         \* the activity and visibility listeners are installed
    pathname,          \* usePathname()
    username,          \* the username prop
    lastTrackedPath,   \* lastTrackedPath.current
    isInitialized,     \* isInitialized.current
    heartbeatInterval, \* heartbeatInterval.current: "undefined", "pending", or
                       \* "cleared" (the handle of a cancelled timer, still truthy)
    liveTimers,        \* heartbeat timers set and neither fired nor cancelled
    hbRemaining,       \* time until the pending heartbeat timer is due
    hbPath,            \* pathname closed over by the pending timer's sendEvent
    hbUser,            \* username closed over by the pending timer's sendEvent
    heartbeatEnabled,  \* heartbeatEnabled.current
    currentInterval,   \* currentInterval.current
    isActive,          \* isActive.current
    trailPending,      \* a trailing throttle timer is scheduled and has not run
    trailRemaining,    \* time until the trailing timer is due
    trailPath,         \* pathname closed over by the trailing timer's handleActivity
    trailUser,         \* username closed over by the trailing timer's handleActivity
    sinceLastExec,     \* Date.now() - throttleRef.current.lastExecTime
    session_data,      \* sessionStorage analytics_session_data
    nextId,            \* the next session id generateLightweightId returns
    lstore,            \* localStorage: the analytics_ entries, each {value, expiry}
    sstore,            \* sessionStorage: the analytics_ entries but session_data
    nextStamp,         \* the next value new Date().toISOString() is written as
    sent,              \* events handed to sendHumanEvent by the last step, in order
    starts,            \* per session id, the session_start events sent so far
    op,                \* the last step taken
    ret,               \* the value returned by the last direct generateSessionId call
    burst,             \* the activity burst since the last leading-edge execution
    firstOf,           \* per session id, the first event built with it
    steady,            \* per session id: the component had no username while
                       \* the session was stored, and every event so far was
                       \* built with no username and one and the same fingerprint
    seenIn,            \* per visitor id, the session of the first event built
                       \* with it (0: none yet)
    result,            \* the value returned by the last storage adapter call
    shadow,            \* per durable key, the last setItem that succeeded
    tx,                \* the transmitter call in progress
    mw,                \* the last call of the middleware: its request, what
                       \* it returned and whether it called trackBotVisit
    rev,               \* the tracker of an earlier revision (part_010,
                       \* part_012): its refs, listeners, timer and session
    perf,              \* perfEventSent.current, the pending timers of
                       \* sendPerfEvent, and the performance events sent
    raw                \* localStorage and sessionStorage of the origin, key
                       \* by key as the platform holds them, and the last
                       \* call of the storage adapter on them

vars == <<production, botUA, hidden, mounted, fingerprint, sessionHow,
          documentReferrer, network,
          inFlight, listeners, pathname,
          username, lastTrackedPath, isInitialized, heartbeatInterval, liveTimers,
          hbRemaining, hbPath, hbUser, heartbeatEnabled, currentInterval,
          isActive, trailPending, trailRemaining, trailPath, trailUser,
          sinceLastExec, session_data, nextId, lstore, sstore, nextStamp,
          sent, starts, op, ret, burst, firstOf, steady, seenIn, result,
          shadow, tx, mw, rev, perf, raw>>

(***************************************************************************)
(* Bounds of the model and constants of the program.                       *)
(***************************************************************************)
MaxSessions == 3

MaxInFlight == 3

Paths == {"/a", "/b"}

NoPath == "-"

\* The clock advances in steps of one minute in Spec.
ClockStep == 60 * 1000

\* The clock advances in steps of 50 ms in SpecThrottle.
ThrottleStep == 5 * 10

SESSION_TIMEOUT == 30 * 60 * 1000

inactivityThreshold == 2 * 60 * 1000

intervals == <<15000, 60000, 5 * 60 * 1000, 15 * 60 * 1000>>

delay == 250

SessionIds == 1 .. MaxSessions

NoSession == [session_id |-> 0, idle |-> 0]

NoReturn == [sessionId |-> 0, isNewSession |-> FALSE]

\* The burst record: how many activity events arrived since (and with) the
\* last leading-edge execution, how many times handleActivity ran since then,
\* the time since that execution (age), the age at the last event and at
\* the last trailing execution, and whether every event came before age = delay.
NoBurst == [events |-> 0, execs |-> 0, age |-> 0, lastEvent |-> 0,
            trailAt |-> 0 - 1, inside |-> TRUE]

Min(a, b) == IF a < b THEN a ELSE b

Max(a, b) == IF a > b THEN a ELSE b

Range(f) == {f[x] : x \in DOMAIN f}

\* An age after d more milliseconds, saturating at cap.
Older(age, d, cap) == Min(age + d, cap)

\* A timer's remaining time after d more milliseconds.
Nearer(rem, d) == Max(rem - d, 0)

(***************************************************************************)
(* Text.  A string is the sequence of its characters, over the alphabet    *)
(* "a", "A", " ", "@", "-"; a longer token stands for a string whose       *)
(* characters the code never looks at.  Null is the JavaScript null.       *)
(***************************************************************************)
Null == <<"null">>

Usernames == {Null, <<>>, <<" ">>, <<"A", " ", "@">>, <<"@">>}

Fingerprints == {"fp1", "fp2"}

Whitespace == {" "}

\* The characters of the alphabet that [^a-z0-9-] does not match.
SlugChars == {"a", "-"}

\* s without its longest prefix of chars.
TrimStart(s, chars) ==
    LET kept == {i \in DOMAIN s : s[i] \notin chars}
    IN  IF kept = {}
        THEN <<>>
        ELSE SubSeq(s, CHOOSE i \in kept : \A j \in kept : i <= j, Len(s))

\* s without its longest suffix of chars.
TrimEnd(s, chars) ==
    LET kept == {i \in DOMAIN s : s[i] \notin chars}
    IN  IF kept = {}
        THEN <<>>
        ELSE SubSeq(s, 1, CHOOSE i \in kept : \A j \in kept : i >= j)

\* String.prototype.trim
Trim(s) == TrimEnd(TrimStart(s, Whitespace), Whitespace)

\* String.prototype.toLowerCase
ToLowerCase(s) ==
    IF s = <<>>
    THEN <<>>
    ELSE [i \in DOMAIN s |-> IF s[i] = "A" THEN "a" ELSE s[i]]

\* replace(/[chars]+/g, by): every maximal run of chars becomes by.  A run
\* is marked at its first character and its other characters are dropped.
ReplaceRuns(s, chars, by) ==
    LET marked == [i \in DOMAIN s |->
                      IF s[i] \notin chars
                      THEN s[i]
                      ELSE IF i > 1 /\ s[i - 1] \in chars THEN "" ELSE by]
        Kept(ch) == ch # ""
    IN  IF s = <<>> THEN <<>> ELSE SelectSeq(marked, Kept)

\* replace(/[^a-z0-9-]/g, "")
RemoveNonSlug(s) ==
    LET Keep(ch) == ch \in SlugChars
    IN  SelectSeq(s, Keep)

\* substring(0, n)
Substring(s, n) == SubSeq(s, 1, Min(Len(s), n))

Includes(s, ch) == \E i \in DOMAIN s : s[i] = ch

UnknownUser == <<"unknown-user">>

\* username && username.trim() !== ""
IsSupplied(name) == name # Null /\ name # <<>> /\ Trim(name) # <<>>

\* generateVisitorId's cleanUsername.
CleanUsername(name) ==
    LET dashed   == ReplaceRuns(ToLowerCase(Trim(name)), Whitespace, "-")
        slugged  == ReplaceRuns(RemoveNonSlug(dashed), {"-"}, "-")
        stripped == TrimEnd(TrimStart(slugged, {"-"}), {"-"})
        cut      == Substring(stripped, 50)
    IN  IF cut = <<>> THEN UnknownUser ELSE cut

\* Math.abs(hash).toString(36) of the joined fingerprint: one id per
\* fingerprint, none of them a slug of the alphabet.
FingerprintId(fp) == <<fp>>

Slugs == {CleanUsername(name) : name \in {n \in Usernames : IsSupplied(n)}}

FingerprintIds == {FingerprintId(fp) : fp \in Fingerprints}

VisitorIds == Slugs \cup FingerprintIds

(***************************************************************************)
(* The storage adapter (src/storage-utils.ts).  A durable entry is         *)
(* {value, expiry}; left = expiry - Date.now(), in seconds (30 days in ms  *)
(* exceed 2^31).  A session-scoped entry is its JSON text, "null" when the *)
(* key is absent.  how says what the platform does to the call: "ok";      *)
(* "server" (no window); "throws" (the first localStorage / sessionStorage *)
(* call throws); "evictThrows" (only the removeItem inside getItem throws).*)
(***************************************************************************)
\* DEFAULT_TTL.VISITOR, in seconds.
VISITOR == 30 * 24 * 60 * 60

\* Time passes in steps of ten days where durable expiry is followed.
LongStep == 10 * 24 * 60 * 60 * 1000

Outcomes == {"ok", "server", "throws", "evictThrows"}

NoItem == [present |-> FALSE, value |-> Null, left |-> 0]

VisitorIdKey == <<"visitor_id">>

\* `visitor_${visitorId}`
VisitorKey(visitorId) == <<"visitor_">> \o visitorId

\* `isNewVisitor_${visitorId}`
VisitorCacheKey(visitorId) == <<"isNewVisitor_">> \o visitorId

\* `session_start_${sessionId}`
SessionStartKey(sessionId) == <<"session_start_", ToString(sessionId)>>

LocalKeys == {VisitorIdKey} \cup {VisitorKey(v) : v \in VisitorIds}

SessionKeys ==
    {VisitorCacheKey(v) : v \in VisitorIds \cup {UnknownUser}}
        \cup {SessionStartKey(i) : i \in 1 .. (MaxSessions + 1)}

EmptyLocal == [k \in LocalKeys |-> NoItem]

EmptySession == [k \in SessionKeys |-> "null"]

\* Faulty variant of Try: the exception is not caught.
TryWithoutCatch(call, fallback) == call

\* try { call } catch { return fallback }
Try(call, fallback) ==
    IF call.threw
    THEN [call EXCEPT !.returns = fallback, !.threw = FALSE]
    ELSE call

\* Faulty variant of Expired: the entry is dead at its expiry time already.
ExpiredAtExpiry(left) == left <= 0

\* Date.now() > item.expiry
Expired(left) == left < 0

\* AnalyticsStorage.setItem
LocalSetItem(store, key, value, ttlMs, how) ==
    IF how = "server"
    THEN [store |-> store, returns |-> FALSE, threw |-> FALSE]
    ELSE Try(IF how = "throws"
             THEN [store |-> store, returns |-> TRUE, threw |-> TRUE]
             ELSE [store |-> [store EXCEPT ![key] = [present |-> TRUE,
                                                     value   |-> value,
                                                     left    |-> ttlMs]],
                   returns |-> TRUE, threw |-> FALSE],
             FALSE)

\* AnalyticsStorage.getItem
LocalGetItem(store, key, how) ==
    IF how = "server"
    THEN [store |-> store, returns |-> Null, threw |-> FALSE]
    ELSE Try(IF how = "throws"
             THEN [store |-> store, returns |-> Null, threw |-> TRUE]
             ELSE IF ~store[key].present
                  THEN [store |-> store, returns |-> Null, threw |-> FALSE]
                  ELSE IF Expired(store[key].left)
                       THEN IF how = "evictThrows"
                            THEN [store |-> store, returns |-> Null, threw |-> TRUE]
                            ELSE [store |-> [store EXCEPT ![key] = NoItem],
                                  returns |-> Null, threw |-> FALSE]
                       ELSE [store |-> store, returns |-> store[key].value,
                             threw |-> FALSE],
             Null)

\* AnalyticsStorage.removeItem
LocalRemoveItem(store, key, how) ==
    IF how = "server"
    THEN [store |-> store, returns |-> Null, threw |-> FALSE]
    ELSE Try(IF how = "throws"
             THEN [store |-> store, returns |-> Null, threw |-> TRUE]
             ELSE [store |-> [store EXCEPT ![key] = NoItem],
                   returns |-> Null, threw |-> FALSE],
             Null)

\* AnalyticsStorage.setVisitor; the value written is Date.now().
SetVisitor(store, visitorId, how) ==
    LocalSetItem(store, VisitorKey(visitorId), <<"now">>, VISITOR, how)

\* AnalyticsStorage.hasVisitor
HasVisitor(store, visitorId, how) ==
    LET g == LocalGetItem(store, VisitorKey(visitorId), how)
    IN  [store |-> g.store, returns |-> g.returns # Null, threw |-> g.threw]

\* AnalyticsSessionStorage.setItem
SessionSetItem(store, key, text, how) ==
    IF how = "server"
    THEN [store |-> store, returns |-> "false", threw |-> FALSE]
    ELSE Try(IF how = "throws"
             THEN [store |-> store, returns |-> "true", threw |-> TRUE]
             ELSE [store |-> [store EXCEPT ![key] = text],
                   returns |-> "true", threw |-> FALSE],
             "false")

\* AnalyticsSessionStorage.getItem
SessionGetItem(store, key, how) ==
    IF how = "server"
    THEN [store |-> store, returns |-> "null", threw |-> FALSE]
    ELSE Try(IF how = "throws"
             THEN [store |-> store, returns |-> "null", threw |-> TRUE]
             ELSE [store |-> store, returns |-> store[key], threw |-> FALSE],
             "null")

\* AnalyticsSessionStorage.removeItem
SessionRemoveItem(store, key, how) ==
    IF how = "server"
    THEN [store |-> store, returns |-> "null", threw |-> FALSE]
    ELSE Try(IF how = "throws"
             THEN [store |-> store, returns |-> "null", threw |-> TRUE]
             ELSE [store |-> [store EXCEPT ![key] = "null"],
                   returns |-> "null", threw |-> FALSE],
             "null")

\* The durable entries after d more milliseconds, in whole LongSteps.
Aged(store, d) ==
    [k \in DOMAIN store |->
        IF store[k].present
        THEN [store[k] EXCEPT !.left =
                 Max(@ - (d \div LongStep) * (LongStep \div 1000), 0 - 1)]
        ELSE store[k]]

(***************************************************************************)
(* The mutable state a handler works on, threaded through the functions    *)
(* it calls; sent collects the events the handler hands to the transmitter.*)
(***************************************************************************)
Ctx ==
    [session_data      |-> session_data,
     nextId            |-> nextId,
     sent              |-> <<>>,
     sessionHow        |-> sessionHow,
     network           |-> network,
     heartbeatEnabled  |-> heartbeatEnabled,
     heartbeatInterval |-> heartbeatInterval,
     liveTimers        |-> liveTimers,
     hbRemaining       |-> hbRemaining,
     hbPath            |-> hbPath,
     hbUser            |-> hbUser,
     lstore            |-> lstore,
     sstore            |-> sstore,
     nextStamp         |-> nextStamp,
     currentInterval   |-> currentInterval,
     isActive          |-> isActive]

\* AnalyticsSessionStorage.getItem("session_data"): session_id = 0 stands
\* for null, which is also what a sessionStorage that throws gives.
StoredSession(c) ==
    IF c.sessionHow = "ok" THEN c.session_data ELSE NoSession

\* AnalyticsSessionStorage.setItem("session_data", value): a write that
\* throws stores nothing.
StoreSession(c, value) ==
    IF c.sessionHow = "ok" THEN [c EXCEPT !.session_data = value] ELSE c

\* Faulty variant of SessionStillValid: the boundary counts as valid.
SessionStillValidInclusive(timeSinceActivity) ==
    timeSinceActivity <= SESSION_TIMEOUT

\* generateSessionId's validity test: timeSinceActivity < SESSION_TIMEOUT.
SessionStillValid(timeSinceActivity) ==
    timeSinceActivity < SESSION_TIMEOUT

\* Faulty variant of GenerateSessionId: reading a valid session refreshes
\* its last_activity.
GenerateSessionIdTouching(c) ==
    IF StoredSession(c).session_id # 0 /\ SessionStillValid(StoredSession(c).idle)
    THEN [c |-> StoreSession(c, [StoredSession(c) EXCEPT !.idle = 0]),
          sessionId |-> StoredSession(c).session_id,
          isNewSession |-> FALSE]
    ELSE [c |-> [StoreSession(c, [session_id |-> c.nextId, idle |-> 0])
                    EXCEPT !.nextId = IF c.sessionHow = "ok" THEN @ + 1 ELSE @],
          sessionId |-> c.nextId,
          isNewSession |-> TRUE]

\* generateSessionId: the stored session while it is younger than the
\* timeout, else a freshly minted one, persisted with last_activity = now.
GenerateSessionId(c) ==
    IF StoredSession(c).session_id # 0 /\ SessionStillValid(StoredSession(c).idle)
    THEN [c |-> c,
          sessionId |-> StoredSession(c).session_id,
          isNewSession |-> FALSE]
    ELSE [c |-> [StoreSession(c, [session_id |-> c.nextId, idle |-> 0])
                    EXCEPT !.nextId = IF c.sessionHow = "ok" THEN @ + 1 ELSE @],
          sessionId |-> c.nextId,
          isNewSession |-> TRUE]

\* Faulty variant of GenerateVisitorId: a stored id wins over the username.
GenerateVisitorIdStoredFirst(c, name) ==
    LET g == LocalGetItem(c.lstore, VisitorIdKey, "ok")
    IN  IF g.returns # Null
        THEN [c |-> [c EXCEPT !.lstore = g.store], visitorId |-> g.returns]
        ELSE LET visitorId == IF IsSupplied(name)
                              THEN CleanUsername(name)
                              ELSE FingerprintId(fingerprint)
             IN  [c |-> [c EXCEPT !.lstore =
                            LocalSetItem(g.store, VisitorIdKey, visitorId,
                                         VISITOR, "ok").store],
                  visitorId |-> visitorId]

\* generateVisitorId: the slug of a supplied username; else the stored id
\* unless it holds "@" or is "unknown-user"; else the fingerprint's hash.
\* Whatever it computes it stores under visitor_id with the default ttl.
GenerateVisitorId(c, name) ==
    IF IsSupplied(name)
    THEN LET cleanUsername == CleanUsername(name)
         IN  [c |-> [c EXCEPT !.lstore =
                        LocalSetItem(@, VisitorIdKey, cleanUsername,
                                     VISITOR, "ok").store],
              visitorId |-> cleanUsername]
    ELSE LET g == LocalGetItem(c.lstore, VisitorIdKey, "ok")
             stored == g.returns
         IN  IF stored # Null /\ ~Includes(stored, "@") /\ stored # UnknownUser
             THEN [c |-> [c EXCEPT !.lstore = g.store], visitorId |-> stored]
             ELSE LET visitorId == FingerprintId(fingerprint)
                  IN  [c |-> [c EXCEPT !.lstore =
                                 LocalSetItem(g.store, VisitorIdKey, visitorId,
                                              VISITOR, "ok").store],
                       visitorId |-> visitorId]

\* getClientData's isNewVisitor: false for a supplied username; else the
\* value cached in session storage under isNewVisitor_<visitorId>; else
\* decided from hasVisitor, cached, and the visitor recorded if new.
IsNewVisitor(c, name, visitorId) ==
    IF IsSupplied(name)
    THEN [c |-> c, isNewVisitor |-> FALSE]
    ELSE LET visitorCacheKey == VisitorCacheKey(visitorId)
             cachedIsNewVisitor ==
                 SessionGetItem(c.sstore, visitorCacheKey, c.sessionHow).returns
         IN  IF cachedIsNewVisitor = "null"
             THEN LET h  == HasVisitor(c.lstore, visitorId, "ok")
                      isNewVisitor == ~h.returns
                      text == IF isNewVisitor THEN "true" ELSE "false"
                      c1 == [c EXCEPT !.lstore = h.store,
                                      !.sstore = SessionSetItem(@, visitorCacheKey,
                                                                text, c.sessionHow).store]
                  IN  [c |-> IF isNewVisitor
                             THEN [c1 EXCEPT !.lstore =
                                      SetVisitor(@, visitorId, "ok").store]
                             ELSE c1,
                       isNewVisitor |-> isNewVisitor]
             ELSE [c |-> c, isNewVisitor |-> cachedIsNewVisitor = "true"]

\* Faulty variant of SessionStartTime: the time is taken anew every time.
SessionStartTimeAnew(c, sessionId) ==
    LET now == ToString(c.nextStamp)
    IN  [c |-> [c EXCEPT !.sstore = SessionSetItem(@, SessionStartKey(sessionId),
                                                   now, c.sessionHow).store,
                         !.nextStamp = IF c.sessionHow = "ok" THEN @ + 1 ELSE @],
         sessionStartTime |-> now]

\* getClientData's sessionStartTime: the value stored under
\* session_start_<sessionId>, written with the current time if absent.
SessionStartTime(c, sessionId) ==
    LET stored == SessionGetItem(c.sstore, SessionStartKey(sessionId),
                                 c.sessionHow).returns
        now == ToString(c.nextStamp)
    IN  IF stored = "null"
        THEN [c |-> [c EXCEPT !.sstore = SessionSetItem(@, SessionStartKey(sessionId),
                                                        now, c.sessionHow).store,
                              !.nextStamp = IF c.sessionHow = "ok" THEN @ + 1 ELSE @],
              sessionStartTime |-> now]
        ELSE [c |-> c, sessionStartTime |-> stored]

\* getClientData, lines 172-180: what it returns.
ClientData(t, isNewVisitor, isNewSession) ==
    [c |-> t.c,
     isNewVisitor |-> isNewVisitor,
     sessionStartTime |-> t.sessionStartTime,
     isNewSession |-> isNewSession]

\* getClientData, lines 153-162, given n, what IsNewVisitor returned.
ClientDataOfVisitor(n, sessionId, isNewSession) ==
    ClientData(SessionStartTime(n.c, sessionId), n.isNewVisitor, isNewSession)

\* getClientData, lines 129-151, given g, what generateSessionId returned.
ClientDataInSession(g, name, visitorId) ==
    ClientDataOfVisitor(IsNewVisitor(g.c, name, visitorId),
                        g.sessionId, g.isNewSession)

\* getClientData, line 128, given v, what generateVisitorId returned.
ClientDataFor(v, name) ==
    ClientDataInSession(GenerateSessionId(v.c), name, v.visitorId)

\* Faulty variant of GetClientData: every session is reported as new.
GetClientDataAlwaysNew(c, name) ==
    [ClientDataFor(GenerateVisitorId(c, name), name) EXCEPT !.isNewSession = TRUE]

\* getClientData: resolves the visitor and the session (and so may mint
\* one), then isNewVisitor and sessionStartTime.
GetClientData(c, name) ==
    ClientDataFor(GenerateVisitorId(c, name), name)

\* Faulty variant of UpdateLastActivity: last_activity is left as it is.
UpdateLastActivityNever(c) == c

\* updateLastActivity: last_activity = now, if session_data is stored.
UpdateLastActivity(c) ==
    IF StoredSession(c).session_id # 0
    THEN StoreSession(c, [StoredSession(c) EXCEPT !.idle = 0])
    ELSE c

\* sendEvent, lines 274-290, given g, what generateSessionId returned: the
\* payload is handed to sendHumanEvent without waiting for the send.
Payload(g, visitorId, clientData, eventType, path, name) ==
    [g.c EXCEPT !.sent =
        Append(@, [event_type         |-> eventType,
                   session_id         |-> g.sessionId,
                   path               |-> path,
                   hidden             |-> hidden,
                   visitor_id         |-> visitorId,
                   is_new_visitor     |-> clientData.isNewVisitor,
                   session_start_time |-> clientData.sessionStartTime,
                   visitor_name       |-> name,
                   referrer           |-> Null,
                   fingerprint        |-> fingerprint])]

\* sendEvent, line 272, given v, what generateVisitorId returned.
PayloadOfVisitor(v, clientData, eventType, path, name) ==
    Payload(GenerateSessionId(v.c), v.visitorId, clientData, eventType, path, name)

\* sendEvent, line 271, given what getClientData returned.
PayloadOfClient(clientData, eventType, path, name) ==
    PayloadOfVisitor(GenerateVisitorId(clientData.c, name), clientData,
                     eventType, path, name)

\* sendEvent: a no-op outside production; else builds the payload, which
\* resolves the visitor and the session twice (getClientData, then
\* generateVisitorId and generateSessionId).  path and name are the pathname
\* and the username of the render the callback belongs to.
SendEvent(c, eventType, path, name) ==
    IF ~production
    THEN c
    ELSE PayloadOfClient(GetClientData(c, name), eventType, path, name)

\* The effect, lines 427-432: document.referrer if it is not empty, else
\* undefined.
Referrer == IF Len(documentReferrer) > 0 THEN documentReferrer ELSE Null

\* sendEvent(eventType, referrer): the payload's referrer is the argument.
SendEventFrom(c, eventType, path, name, referrer) ==
    IF ~production
    THEN c
    ELSE [SendEvent(c, eventType, path, name)
             EXCEPT !.sent[Len(c.sent) + 1].referrer = referrer]

\* Faulty variant of ScheduleNextHeartbeat: no test for a pending timer.
ScheduleNextHeartbeatUnguarded(c, path, name) ==
    IF ~c.heartbeatEnabled
    THEN c
    ELSE [c EXCEPT !.heartbeatInterval = "pending",
                   !.liveTimers = @ + 1,
                   !.hbRemaining = c.currentInterval,
                   !.hbPath = path,
                   !.hbUser = name]

\* scheduleNextHeartbeat, lines 298-306 and 335: the guards, and the timer
\* set for currentInterval.current.
ScheduleNextHeartbeat(c, path, name) ==
    IF ~c.heartbeatEnabled
    THEN c
    ELSE IF c.heartbeatInterval # "undefined"
         THEN c
         ELSE [c EXCEPT !.heartbeatInterval = "pending",
                        !.liveTimers = @ + 1,
                        !.hbRemaining = c.currentInterval,
                        !.hbPath = path,
                        !.hbUser = name]

\* clearTimeout(heartbeatInterval.current): the timer, if still live, will
\* not fire.
ClearTimeout(c) ==
    IF c.heartbeatInterval = "pending"
    THEN [c EXCEPT !.liveTimers = @ - 1]
    ELSE c

\* intervals.indexOf(v): 0 stands for -1 (not found).
IndexOfInterval(v) ==
    IF \E i \in DOMAIN intervals : intervals[i] = v
    THEN CHOOSE i \in DOMAIN intervals : intervals[i] = v
    ELSE 0

\* Faulty variant of HardCutoffReached: the boundary is not a cutoff.
HardCutoffReachedStrict(timeSinceActivity) ==
    timeSinceActivity > SESSION_TIMEOUT

\* Faulty variant of HardCutoffReached: there is no hard cutoff.
HardCutoffReachedNever(timeSinceActivity) == FALSE

\* The callback's hard-cutoff test: timeSinceActivity >= SESSION_TIMEOUT.
HardCutoffReached(timeSinceActivity) ==
    timeSinceActivity >= SESSION_TIMEOUT

\* Faulty variant of HeartbeatAdvance: the interval jumps to the last step.
HeartbeatAdvanceToLast(c, currentIndex, path, name) ==
    ScheduleNextHeartbeat(
        IF currentIndex # 0 /\ currentIndex < Len(intervals)
        THEN [c EXCEPT !.currentInterval = intervals[Len(intervals)]]
        ELSE c,
        path, name)

\* Faulty variant of HeartbeatAdvance: the callback awaits the send of the
\* heartbeat it has just handed over, and resumes only once it settles.
HeartbeatAdvanceAfterSend(c, currentIndex, path, name) ==
    IF c.network = "hung" /\ c.sent # <<>>
    THEN c
    ELSE ScheduleNextHeartbeat(
             IF currentIndex # 0 /\ currentIndex < Len(intervals)
             THEN [c EXCEPT !.currentInterval = intervals[currentIndex + 1]]
             ELSE c,
             path, name)

\* The callback, lines 326-334: the interval moves on and the next timer
\* is scheduled.
HeartbeatAdvance(c, currentIndex, path, name) ==
    ScheduleNextHeartbeat(
        IF currentIndex # 0 /\ currentIndex < Len(intervals)
        THEN [c EXCEPT !.currentInterval = intervals[currentIndex + 1]]
        ELSE c,
        path, name)

\* The callback, lines 308-324, once heartbeatInterval.current is undefined.
HeartbeatDue(c, timeSinceActivity, path, name) ==
    IF HardCutoffReached(timeSinceActivity)
    THEN [c EXCEPT !.heartbeatEnabled = FALSE]
    ELSE HeartbeatAdvance(IF timeSinceActivity < inactivityThreshold
                          THEN SendEvent(c, "heartbeat", path, name)
                          ELSE c,
                          IndexOfInterval(c.currentInterval), path, name)

\* The callback scheduleNextHeartbeat passes to setTimeout.  With no stored
\* session timeSinceActivity is 0.
HeartbeatCallback(c) ==
    HeartbeatDue([c EXCEPT !.heartbeatInterval = "undefined",
                           !.liveTimers = @ - 1,
                           !.hbRemaining = 0,
                           !.hbPath = NoPath,
                           !.hbUser = Null],
                 IF StoredSession(c).session_id # 0 THEN StoredSession(c).idle ELSE 0,
                 c.hbPath, c.hbUser)

\* handleActivity, lines 363-370.
ActivityNoted(c, path, name) ==
    IF c.heartbeatEnabled
    THEN ScheduleNextHeartbeat(
             [UpdateLastActivity(c) EXCEPT !.currentInterval = intervals[1]],
             path, name)
    ELSE [UpdateLastActivity(c) EXCEPT !.currentInterval = intervals[1]]

\* handleActivity, lines 353-360, given g, what generateSessionId returned.
ActivityRenewed(g, path, name) ==
    [(IF g.isNewSession
      THEN SendEvent(SendEvent(g.c, "session_start", path, name),
                     "pageview", path, name)
      ELSE g.c) EXCEPT !.heartbeatEnabled = TRUE]

\* handleActivity.  With no stored session timeSinceActivity is Infinity.
HandleActivity(c, path, name) ==
    ActivityNoted(
        IF \/ StoredSession(c).session_id = 0
           \/ StoredSession(c).idle > SESSION_TIMEOUT
        THEN ActivityRenewed(GenerateSessionId([c EXCEPT !.isActive = TRUE]),
                             path, name)
        ELSE [c EXCEPT !.isActive = TRUE],
        path, name)

\* Faulty variant of HandleVisibilityChange: becoming visible counts as
\* user activity and writes last_activity.
HandleVisibilityChangeAsActivity(c, nowHidden, path, name) ==
    IF nowHidden
    THEN [ClearTimeout(c) EXCEPT !.heartbeatEnabled = FALSE,
                                 !.heartbeatInterval = "undefined",
                                 !.hbRemaining = 0,
                                 !.hbPath = NoPath,
                                 !.hbUser = Null]
    ELSE ScheduleNextHeartbeat(
             UpdateLastActivity([c EXCEPT !.heartbeatEnabled = TRUE,
                                          !.isActive = TRUE]), path, name)

\* handleVisibilityChange.
HandleVisibilityChange(c, nowHidden, path, name) ==
    IF nowHidden
    THEN LET c1 == [c EXCEPT !.heartbeatEnabled = FALSE]
         IN  IF c1.heartbeatInterval # "undefined"
             THEN [ClearTimeout(c1) EXCEPT !.heartbeatInterval = "undefined",
                                           !.hbRemaining = 0,
                                           !.hbPath = NoPath,
                                           !.hbUser = Null]
             ELSE c1
    ELSE ScheduleNextHeartbeat([c EXCEPT !.heartbeatEnabled = TRUE,
                                         !.isActive = TRUE], path, name)

\* The cleanup the effect returns: the listeners go, the pending timer is
\* cancelled, and heartbeatInterval.current keeps the cancelled handle.
EffectCleanup(c) ==
    IF c.heartbeatInterval = "pending"
    THEN [ClearTimeout(c) EXCEPT !.heartbeatInterval = "cleared",
                                 !.hbRemaining = 0,
                                 !.hbPath = NoPath,
                                 !.hbUser = Null]
    ELSE c

\* Faulty variant of IsBot: no client is taken for a bot.
IsBotNever == FALSE

\* isBot(): isbot(navigator.userAgent).
IsBot == botUA

\* The effect, lines 439-482: the listeners are installed and the
\* heartbeat is started; listeners says that the run installed them.
EffectListen(c, path, name, tracked, initialized) ==
    [c |-> ScheduleNextHeartbeat(c, path, name),
     lastTrackedPath |-> tracked,
     isInitialized |-> initialized,
     listeners |-> TRUE]

\* The effect, lines 424-437.
EffectPageview(c, isNewSession, path, name, tracked, initialized) ==
    IF isNewSession \/ tracked # path
    THEN EffectListen(SendEventFrom(UpdateLastActivity(c), "pageview", path, name,
                                    Referrer),
                      path, name, path, initialized)
    ELSE EffectListen(c, path, name, tracked, initialized)

\* The effect, lines 417-422, given what getClientData returned.
EffectAnnounce(clientData, path, name, tracked, initialized) ==
    IF clientData.isNewSession /\ ~initialized
    THEN EffectPageview(SendEvent(clientData.c, "session_start", path, name),
                        clientData.isNewSession, path, name, tracked, TRUE)
    ELSE EffectPageview(clientData.c, clientData.isNewSession, path, name,
                        tracked, initialized)

\* The effect, lines 399-402: a timer still referenced is cancelled.
EffectClear(c) ==
    IF c.heartbeatInterval # "undefined"
    THEN [ClearTimeout(c) EXCEPT !.heartbeatInterval = "undefined",
                                 !.hbRemaining = 0,
                                 !.hbPath = NoPath,
                                 !.hbUser = Null]
    ELSE c

\* The body of the useEffect, for the render with the given pathname and
\* username.
EffectBody(c, path, name, tracked, initialized) ==
    IF ~production \/ IsBot
    THEN [c |-> EffectClear(c),
          lastTrackedPath |-> tracked,
          isInitialized |-> initialized,
          listeners |-> FALSE]
    ELSE EffectAnnounce(GetClientData(EffectClear(c), name),
                        path, name, tracked, initialized)

\* The activity and visibility listeners exist from a run of the effect
\* that installed them until its cleanup.
Listening == listeners

(***************************************************************************)
(* Steps.                                                                  *)
(***************************************************************************)
StartsIn(events, s) ==
    Cardinality({i \in DOMAIN events : /\ events[i].event_type = "session_start"
                                       /\ events[i].session_id = s})

\* What the first event of session s among events says of the visitor and
\* of the session's start, as a sequence of length 0 or 1.
FirstIn(events, s) ==
    LET mine == {i \in DOMAIN events : events[i].session_id = s}
        e == events[CHOOSE i \in mine : \A j \in mine : i <= j]
    IN  IF mine = {}
        THEN <<>>
        ELSE <<[visitor_id         |-> e.visitor_id,
                is_new_visitor     |-> e.is_new_visitor,
                session_start_time |-> e.session_start_time,
                fingerprint        |-> e.fingerprint]>>

\* The session of the first event among events built with visitor id v, 0 if
\* there is none.
SeenFirst(events, v) ==
    LET mine == {i \in DOMAIN events : events[i].visitor_id = v}
    IN  IF mine = {}
        THEN 0
        ELSE events[CHOOSE i \in mine : \A j \in mine : i <= j].session_id

\* Writes back what a handler left in its context.
Commit(c) ==
    /\ c.nextId <= MaxSessions + 1
    /\ c.nextStamp <= MaxSessions + 2
    /\ lstore' = c.lstore
    /\ sstore' = c.sstore
    /\ nextStamp' = c.nextStamp
    /\ hbUser' = c.hbUser
    /\ firstOf' = [s \in SessionIds |->
                      IF firstOf[s] = <<>> THEN FirstIn(c.sent, s) ELSE firstOf[s]]
    /\ steady' = [s \in SessionIds |->
                     /\ steady[s]
                     /\ session_data.session_id = s => ~IsSupplied(username)
                     /\ \A i \in DOMAIN c.sent :
                           c.sent[i].session_id = s =>
                               /\ ~IsSupplied(c.sent[i].visitor_name)
                               /\ \A f \in Range(firstOf[s]) :
                                     c.sent[i].fingerprint = f.fingerprint]
    /\ seenIn' = [v \in VisitorIds |->
                     IF seenIn[v] # 0 THEN seenIn[v] ELSE SeenFirst(c.sent, v)]
    /\ session_data' = c.session_data
    /\ nextId' = c.nextId
    /\ sent' = c.sent
    /\ inFlight' = IF network = "hung"
                   THEN Min(inFlight + Len(c.sent), MaxInFlight)
                   ELSE inFlight
    /\ starts' = [s \in SessionIds |-> starts[s] + StartsIn(c.sent, s)]
    /\ heartbeatEnabled' = c.heartbeatEnabled
    /\ heartbeatInterval' = c.heartbeatInterval
    /\ liveTimers' = c.liveTimers
    /\ hbRemaining' = c.hbRemaining
    /\ hbPath' = c.hbPath
    /\ currentInterval' = c.currentInterval
    /\ isActive' = c.isActive

Env == <<production, botUA, fingerprint, sessionHow, documentReferrer, network>>

Throttle == <<trailPending, trailRemaining, trailPath, trailUser, sinceLastExec>>

\* What belongs to the storage adapter, the transmitter, the middleware
\* and the earlier revisions taken alone.
Apart == <<result, shadow, tx, mw, rev, raw>>

\* What the steps of the tracker leave alone where the performance send is
\* not followed.
Aside == <<Apart, perf>>

NoResult == [call |-> "none", key |-> Null, how |-> "ok", returns |-> Null,
             threw |-> FALSE]

NoTx == [fn |-> "none", pc |-> "idle", forceFetch |-> FALSE, beacon |-> "absent",
         headers |-> "ok", fetched |-> "none", settled |-> "none",
         returned |-> FALSE, beacons |-> 0, fetches |-> 0, waited |-> 0]

NoMw == [calls |-> 0, request |-> Null, headers |-> Null, pathname |-> NoPath,
         tracked |-> FALSE]

NoRaw == [local |-> <<>>, session |-> <<>>, op |-> "none"]

\* perfEventSent.current is false and no timer of sendPerfEvent is pending.
\* timers holds, for each pending timer, the time until it is due and the
\* pathname of the render whose pageview set it; inVisit counts the
\* performance events sent since the pathname last changed, and last is
\* the last one sent: the page it reports and the pathname its timer was
\* set for.
NoPerf == [perfEventSent |-> FALSE, timers |-> <<>>, inVisit |-> 0,
           last |-> <<>>]

\* The component of an earlier revision before its first render.
NoRev == [isInitialized |-> FALSE, listeners |-> FALSE, pathname |-> "/a",
          lastTrackedPath |-> "/a", hidden |-> FALSE,
          heartbeatIntervalRef |-> "undefined", hbRemaining |-> 0,
          heartbeatEnabledRef |-> TRUE, currentIntervalRef |-> 0,
          isActiveRef |-> TRUE, has |-> FALSE, idle |-> 0, op |-> "init",
          at |-> "handler", emitted |-> <<>>, afterPause |-> FALSE,
          keepsActive |-> FALSE, inWindow |-> FALSE, trailPending |-> FALSE,
          gone |-> FALSE]

\* The state after construction, for a username among names, a
\* sessionStorage that behaves as one of hows and a network as one of nets.
StartTracker(names, hows, nets) ==
    /\ sessionHow \in hows
    /\ network \in nets
    /\ inFlight = 0
    /\ documentReferrer = <<"https://r">>
    /\ production \in BOOLEAN
    /\ botUA \in BOOLEAN
    /\ hidden \in BOOLEAN
    /\ mounted = "no"
    /\ fingerprint = "fp1"
    /\ listeners = FALSE
    /\ username \in names
    /\ hbUser = Null
    /\ trailUser = Null
    /\ lstore = EmptyLocal
    /\ sstore = EmptySession
    /\ nextStamp = 1
    /\ firstOf = [s \in SessionIds |-> <<>>]
    /\ steady = [s \in SessionIds |-> TRUE]
    /\ seenIn = [v \in VisitorIds |-> 0]
    /\ result = NoResult
    /\ shadow = [k \in LocalKeys |-> <<>>]
    /\ tx = NoTx
    /\ mw = NoMw
    /\ rev = NoRev
    /\ perf = NoPerf
    /\ pathname \in Paths
    /\ lastTrackedPath = pathname
    /\ isInitialized = FALSE
    /\ heartbeatInterval = "undefined"
    /\ liveTimers = 0
    /\ hbRemaining = 0
    /\ hbPath = NoPath
    /\ heartbeatEnabled = TRUE
    /\ currentInterval = 15000
    /\ isActive = TRUE
    /\ trailPending = FALSE
    /\ trailRemaining = 0
    /\ trailPath = NoPath
    /\ sinceLastExec = delay + 1
    /\ session_data = NoSession
    /\ nextId = 1
    /\ sent = <<>>
    /\ starts = [s \in SessionIds |-> 0]
    /\ op = "init"
    /\ ret = NoReturn
    /\ burst = NoBurst

\* ... and the platform's storage is looked at through the adapter only.
StartOn(names, hows, nets) ==
    /\ StartTracker(names, hows, nets)
    /\ raw = NoRaw

\* The state after construction where sessionStorage and the network work.
Start(names) == StartOn(names, {"ok"}, {"prompt"})

Init == Start({Null})

\* The first run of the effect, after the first render.
MountEffect ==
    /\ mounted = "no"
    /\ \E e \in {EffectBody(Ctx, pathname, username, lastTrackedPath, isInitialized)} :
           /\ Commit(e.c)
           /\ lastTrackedPath' = e.lastTrackedPath
           /\ isInitialized' = e.isInitialized
           /\ listeners' = e.listeners
    /\ mounted' = "yes"
    /\ op' = "mount"
    /\ UNCHANGED <<Env, hidden, pathname, username, Throttle, ret, burst>>

Mount == MountEffect /\ UNCHANGED Aside

\* A re-run of the effect, for a render with pathname p and username name.
\* The previous run's cleanup, if it returned one, runs first.
EffectAgain(p, name) ==
    /\ mounted = "yes"
    /\ \E e \in {EffectBody(IF Listening THEN EffectCleanup(Ctx) ELSE Ctx,
                              p, name, lastTrackedPath, isInitialized)} :
           /\ Commit(e.c)
           /\ lastTrackedPath' = e.lastTrackedPath
           /\ isInitialized' = e.isInitialized
           /\ listeners' = e.listeners
    /\ pathname' = p
    /\ username' = name
    /\ op' = "rerun"
    /\ UNCHANGED <<Env, hidden, mounted, Throttle, ret, burst>>

EffectRerun(p, name) == EffectAgain(p, name) /\ UNCHANGED Aside

\* The effect re-runs because the pathname changed to p, or because a
\* dependency changed and the pathname is still p.
Rerun(p) == EffectRerun(p, username)

\* Faulty variant of TrailingDelay: the full delay, counted from the event.
TrailingDelayFromEvent(since) == delay

\* The trailing timer's delay: delay - (currentTime - lastExecTime).
TrailingDelay(since) == delay - since

\* throttledHandleActivity: runs handleActivity at once when the last
\* execution is more than delay old, else (re)schedules the trailing timer
\* for the rest of the delay.
ThrottledHandleActivity ==
    /\ IF sinceLastExec > delay
       THEN /\ Commit(HandleActivity(Ctx, pathname, username))
            /\ sinceLastExec' = 0
            /\ op' = "activity"
            /\ UNCHANGED <<trailPending, trailRemaining, trailPath, trailUser>>
       ELSE /\ trailPending' = TRUE
            /\ trailRemaining' = TrailingDelay(sinceLastExec)
            /\ trailPath' = pathname
            /\ trailUser' = username
            /\ Commit(Ctx)
            /\ op' = "throttled"
            /\ UNCHANGED sinceLastExec
    /\ UNCHANGED <<Env, hidden, mounted, listeners, pathname, username,
                   lastTrackedPath, isInitialized, Aside>>

\* The trailing timer's callback.  No cleanup cancels this timer.
TrailingCallback ==
    /\ trailPending
    /\ trailRemaining = 0
    /\ Commit(HandleActivity(Ctx, trailPath, trailUser))
    /\ sinceLastExec' = 0
    /\ trailPending' = FALSE
    /\ trailPath' = NoPath
    /\ trailUser' = Null
    /\ op' = "trailing"
    /\ UNCHANGED <<Env, hidden, mounted, listeners, pathname, username,
                   lastTrackedPath, isInitialized, trailRemaining, Aside>>

\* An activity event reaches the listener.
Activity ==
    /\ Listening
    /\ ThrottledHandleActivity
    /\ UNCHANGED <<ret, burst>>

\* The trailing timer fires, at its due time or later.
TrailingFire ==
    /\ TrailingCallback
    /\ UNCHANGED <<ret, burst>>

\* The heartbeat timer's callback.
TimerFire ==
    /\ heartbeatInterval = "pending"
    /\ hbRemaining = 0
    /\ Commit(HeartbeatCallback(Ctx))
    /\ op' = "timer"
    /\ UNCHANGED <<Env, hidden, mounted, listeners, pathname, username,
                   lastTrackedPath, isInitialized, Throttle, ret, burst, Aside>>

\* The tab becomes hidden or visible; the listener runs if installed.
VisibilityChange ==
    /\ hidden' = ~hidden
    /\ IF Listening
       THEN Commit(HandleVisibilityChange(Ctx, ~hidden, pathname, username))
       ELSE Commit(Ctx)
    /\ op' = "visibility"
    /\ UNCHANGED <<Env, mounted, listeners, pathname, username, lastTrackedPath,
                   isInitialized, Throttle, ret, burst, Aside>>

\* The component unmounts: the effect's cleanup runs, if it returned one.
Unmount ==
    /\ mounted = "yes"
    /\ Commit(IF Listening THEN EffectCleanup(Ctx) ELSE Ctx)
    /\ mounted' = "gone"
    /\ listeners' = FALSE
    /\ op' = "unmount"
    /\ UNCHANGED <<Env, hidden, pathname, username, lastTrackedPath, isInitialized,
                   Throttle, ret, burst, Aside>>

\* A document is loaded: no timer, no listener, fresh refs, and the
\* component rendered with pathname p and username name.
FreshDocument(p, name) ==
    /\ mounted # "no"
    /\ mounted' = "no"
    /\ listeners' = FALSE
    /\ pathname' = p
    /\ username' = name
    /\ hbUser' = Null
    /\ trailUser' = Null
    /\ lastTrackedPath' = p
    /\ isInitialized' = FALSE
    /\ heartbeatInterval' = "undefined"
    /\ liveTimers' = 0
    /\ hbRemaining' = 0
    /\ hbPath' = NoPath
    /\ heartbeatEnabled' = TRUE
    /\ currentInterval' = 15000
    /\ isActive' = TRUE
    /\ trailPending' = FALSE
    /\ trailRemaining' = 0
    /\ trailPath' = NoPath
    /\ sinceLastExec' = delay + 1
    /\ sent' = <<>>
    /\ UNCHANGED <<Env, hidden, nextId, inFlight, lstore, nextStamp, starts, ret, burst,
                   firstOf, steady, seenIn, Aside>>

\* The document is loaded again in the same tab: sessionStorage is kept.
Reload(p) ==
    /\ FreshDocument(p, username)
    /\ op' = "reload"
    /\ UNCHANGED <<session_data, sstore>>

\* d milliseconds pass, after which the durable entries are aged.
Clock(d, aged) ==
    /\ session_data' = IF session_data.session_id # 0
                       THEN [session_data EXCEPT !.idle = Older(@, d, SESSION_TIMEOUT + 1)]
                       ELSE session_data
    /\ sinceLastExec' = Older(sinceLastExec, d, delay + 1)
    /\ hbRemaining' = Nearer(hbRemaining, d)
    /\ trailRemaining' = Nearer(trailRemaining, d)
    /\ lstore' = aged
    /\ sent' = <<>>
    /\ op' = "tick"
    /\ UNCHANGED <<Env, hidden, mounted, listeners, pathname, username,
                   lastTrackedPath, isInitialized, heartbeatInterval, liveTimers,
                   hbPath, hbUser, heartbeatEnabled, currentInterval, isActive, trailPending,
                   trailPath, trailUser, nextId, inFlight, sstore, nextStamp, starts,
                   firstOf, steady, seenIn>>

Elapse(d, aged) == Clock(d, aged) /\ UNCHANGED Aside

\* d milliseconds pass.
Pass(d) == Elapse(d, Aged(lstore, d))

Tick ==
    /\ Pass(ClockStep)
    /\ UNCHANGED <<ret, burst>>

Next ==
    \/ Mount
    \/ \E p \in Paths : Rerun(p)
    \/ Activity
    \/ TrailingFire
    \/ TimerFire
    \/ VisibilityChange
    \/ Unmount
    \/ \E p \in Paths : Reload(p)
    \/ Tick

Spec == Init /\ [][Next]_vars

(***************************************************************************)
(* generateSessionId called on its own, at any time.                       *)
(***************************************************************************)
(***************************************************************************)
(* The tracker left alone after its mount: no activity, no route change,   *)
(* no visibility event.  The effect runs after the first render, a timer   *)
(* that is due fires, and time passes.                                     *)
(***************************************************************************)
NextQuiet ==
    \/ Mount
    \/ TimerFire
    \/ Tick

\* The effect runs, and a timer that is due fires.  op names the step
\* taken: a step that sets it to "mount" is Mount, and one that sets it to
\* "timer" while the heartbeat timer is due is TimerFire.
MountRuns == mounted = "no" /\ op' = "mount"

TimerRuns == heartbeatInterval = "pending" /\ hbRemaining = 0 /\ op' = "timer"

SpecQuiet ==
    /\ Init
    /\ [][NextQuiet]_vars
    /\ WF_op(MountRuns)
    /\ WF_op(TimerRuns)
    /\ WF_vars(Tick)

\* The same where sessionStorage is unavailable: every read of it gives
\* null and every write to it fails.
InitDegraded == StartOn({Null}, {"throws"}, {"prompt"})

SpecDegraded ==
    /\ InitDegraded
    /\ [][NextQuiet]_vars
    /\ WF_op(MountRuns)
    /\ WF_op(TimerRuns)
    /\ WF_vars(Tick)

(***************************************************************************)
(* The tracker on a network where no send ever settles: inFlight counts    *)
(* the sends handed to the transmitter.                                    *)
(***************************************************************************)
InitHung == StartOn({Null}, {"ok"}, {"hung"})

NextHung ==
    \/ Mount
    \/ Activity
    \/ TrailingFire
    \/ TimerFire
    \/ Tick

SpecHung == InitHung /\ [][NextHung]_vars

(***************************************************************************)
(* The performance send.  sendEvent("pageview") calls sendPerfEvent, which *)
(* sets perfEventSent.current and a 1 s timer unless the flag is set; the  *)
(* effect clears the flag when the pathname has changed; the timer's       *)
(* callback resolves the visitor and reports window.location.pathname as   *)
(* it is when the callback runs.  Nothing cancels the timer.  The clock    *)
(* advances in steps of 500 ms while a timer is not yet due; a callback    *)
(* runs at its due time or later.  window.performance is available.        *)
(***************************************************************************)
MaxPerfTimers == 2

PerfStep == 5 * 100

PerfDelay == 1000

\* sendPerfEvent, called for the render with pathname path and username
\* name.
SendPerfEvent(pf, path, name) ==
    IF pf.perfEventSent
    THEN pf
    ELSE [pf EXCEPT !.perfEventSent = TRUE,
                    !.timers = Append(@, [remaining |-> PerfDelay,
                                          for |-> path,
                                          user |-> name])]

\* sendEvent, lines 263-266, for the events a handler handed over: each
\* pageview was preceded by a call of sendPerfEvent.
SendEventPerf(pf, events, path, name) ==
    IF \E i \in DOMAIN events : events[i].event_type = "pageview"
    THEN SendPerfEvent(pf, path, name)
    ELSE pf

\* The effect, lines 404-407.
EffectPerf(pf, tracked, path) ==
    IF tracked # path THEN [pf EXCEPT !.perfEventSent = FALSE] ELSE pf

\* A render with pathname p: a page visit ends when the pathname changes.
Visit(pf, p) ==
    IF p # pathname THEN [pf EXCEPT !.inVisit = 0] ELSE pf

PerfMount ==
    /\ MountEffect
    /\ perf' = SendEventPerf(EffectPerf(perf, lastTrackedPath, pathname),
                             sent', pathname, username)
    /\ UNCHANGED Apart

\* The effect re-runs for a render with pathname p.
PerfRerun(p) ==
    /\ EffectAgain(p, username)
    /\ perf' = SendEventPerf(EffectPerf(Visit(perf, p), lastTrackedPath, p),
                             sent', p, username)
    /\ Len(perf'.timers) <= MaxPerfTimers
    /\ UNCHANGED Apart

\* The callback of a timer of sendPerfEvent, lines 205-227.
PerfFire ==
    /\ \E i \in DOMAIN perf.timers :
           /\ perf.timers[i].remaining = 0
           /\ Commit(GenerateVisitorId(Ctx, perf.timers[i].user).c)
           /\ perf' = [perf EXCEPT
                          !.timers = SubSeq(@, 1, i - 1) \o SubSeq(@, i + 1, Len(@)),
                          !.inVisit = @ + 1,
                          !.last = <<[page |-> pathname,
                                      for |-> perf.timers[i].for]>>]
    /\ op' = "perf"
    /\ UNCHANGED <<Env, hidden, mounted, listeners, pathname, username,
                   lastTrackedPath, isInitialized, Throttle, ret, burst, Apart>>

\* 500 ms pass while a timer of sendPerfEvent is not yet due.
PerfTick ==
    /\ \E i \in DOMAIN perf.timers : perf.timers[i].remaining > 0
    /\ Clock(PerfStep, lstore)
    /\ perf' = [perf EXCEPT !.timers =
                   [i \in DOMAIN @ |->
                       [@[i] EXCEPT !.remaining = Nearer(@, PerfStep)]]]
    /\ UNCHANGED <<ret, burst, Apart>>

\* The session times out: 31 minutes pass.
PerfIdle ==
    /\ Clock(SESSION_TIMEOUT + ClockStep, lstore)
    /\ perf' = [perf EXCEPT !.timers =
                   [i \in DOMAIN @ |-> [@[i] EXCEPT !.remaining = 0]]]
    /\ UNCHANGED <<ret, burst, Apart>>

NextPerf ==
    \/ PerfMount
    \/ \E p \in Paths : PerfRerun(p)
    \/ PerfFire
    \/ PerfTick
    \/ PerfIdle

SpecPerf == Init /\ [][NextPerf]_vars

GenerateCall ==
    /\ \E g \in {GenerateSessionId(Ctx)} :
           /\ Commit([g.c EXCEPT !.sent = <<>>])
           /\ ret' = [sessionId |-> g.sessionId, isNewSession |-> g.isNewSession]
    /\ op' = "generateSessionId"
    /\ UNCHANGED <<Env, hidden, mounted, listeners, pathname, username,
                   lastTrackedPath, isInitialized, Throttle, burst, Aside>>

NextGenerate ==
    \/ GenerateCall
    \/ Tick

SpecGenerate == Init /\ [][NextGenerate]_vars

(***************************************************************************)
(* The throttle on a 50 ms clock, with every timer callback run at its due *)
(* time: no time passes while the trailing timer is due.                   *)
(***************************************************************************)
MaxBurst == 3

BurstHorizon == 2 * delay

BurstActivity ==
    /\ Listening
    /\ burst.events < MaxBurst
    /\ ThrottledHandleActivity
    /\ burst' = IF sinceLastExec > delay
                THEN [events |-> 1, execs |-> 1, age |-> 0, lastEvent |-> 0,
                      trailAt |-> 0 - 1, inside |-> TRUE]
                ELSE [burst EXCEPT !.events = @ + 1,
                                   !.lastEvent = burst.age,
                                   !.inside = @ /\ burst.age < delay]
    /\ UNCHANGED ret

BurstTrailingFire ==
    /\ TrailingCallback
    /\ burst' = [burst EXCEPT !.execs = @ + 1, !.trailAt = burst.age]
    /\ UNCHANGED ret

BurstTick ==
    /\ burst.events > 0
    /\ burst.age < BurstHorizon
    /\ ~(trailPending /\ trailRemaining = 0)
    /\ Pass(ThrottleStep)
    /\ burst' = [burst EXCEPT !.age = @ + ThrottleStep]
    /\ UNCHANGED ret

NextThrottle ==
    \/ Mount
    \/ BurstActivity
    \/ BurstTrailingFire
    \/ BurstTick

SpecThrottle == Init /\ [][NextThrottle]_vars

(***************************************************************************)
(* Visitor identity: the tracker in production with a human user agent,    *)
(* its username prop changing (sign in, sign out), tabs opened and other   *)
(* tabs of the origin writing the shared localStorage.                     *)
(***************************************************************************)
\* 50 ms pass, whether or not the trailing timer is due: its callback may
\* run later than its due time.
LateTick ==
    /\ burst.events > 0
    /\ burst.age < BurstHorizon
    /\ Pass(ThrottleStep)
    /\ burst' = [burst EXCEPT !.age = @ + ThrottleStep]
    /\ UNCHANGED ret

NextThrottleLate ==
    \/ Mount
    \/ BurstActivity
    \/ BurstTrailingFire
    \/ LateTick

\* In production, with a human user agent and the tab visible.
InitThrottleLate ==
    /\ Init
    /\ production
    /\ ~botUA
    /\ ~hidden
    /\ pathname = "/a"

SpecThrottleLate == InitThrottleLate /\ [][NextThrottleLate]_vars

\* The usernames the component is rendered with: none, and one with a slug.
SignedIn == {Null, <<"A", " ", "@">>}

InitVisitor ==
    /\ Start(SignedIn)
    /\ production
    /\ ~botUA
    /\ ~hidden
    /\ pathname = "/a"

\* The component is rendered with another username: the effect re-runs.
Identify(name) ==
    /\ name # username
    /\ EffectRerun(pathname, name)

\* A document is loaded in a new tab: sessionStorage starts empty,
\* localStorage is the origin's.
NewTab ==
    /\ FreshDocument(pathname, username)
    /\ session_data' = NoSession
    /\ sstore' = EmptySession
    /\ op' = "newtab"

\* Another tab of the origin renders the tracker for a signed-in user: its
\* getClientData writes the shared localStorage through generateVisitorId.
OtherTab(name) ==
    /\ IsSupplied(name)
    /\ lstore' = GenerateVisitorId(Ctx, name).c.lstore
    /\ sent' = <<>>
    /\ op' = "othertab"
    /\ UNCHANGED <<Env, hidden, mounted, listeners, pathname, username,
                   lastTrackedPath, isInitialized, heartbeatInterval, liveTimers,
                   hbRemaining, hbPath, hbUser, heartbeatEnabled, currentInterval, isActive,
                   Throttle, session_data, nextId, inFlight, sstore, nextStamp, starts,
                   ret, burst, firstOf, steady, seenIn, Aside>>

\* What generateVisitorId reads of navigator, screen and Intl changes.
FingerprintChange(fp) ==
    /\ fp # fingerprint
    /\ fingerprint' = fp
    /\ sent' = <<>>
    /\ op' = "fingerprint"
    /\ UNCHANGED <<production, botUA, sessionHow, documentReferrer, network, hidden, mounted,
                   listeners, pathname, username, lastTrackedPath,
                   isInitialized, heartbeatInterval, liveTimers,
                   hbRemaining, hbPath, hbUser, heartbeatEnabled, currentInterval,
                   isActive, Throttle, session_data, nextId, inFlight, lstore, sstore,
                   nextStamp, starts, ret, burst, firstOf, steady, seenIn, Aside>>

\* A minute passes, while a heartbeat may still be sent.
ShortTick ==
    /\ session_data.idle < inactivityThreshold
    /\ Tick

\* The session times out: 31 minutes pass.
IdleTick ==
    /\ Pass(SESSION_TIMEOUT + ClockStep)
    /\ UNCHANGED <<ret, burst>>

\* An activity event arrives more than delay after the last execution of
\* handleActivity.
LeadingActivity ==
    /\ sinceLastExec > delay
    /\ Activity

NextVisitor ==
    \/ Mount
    \/ \E name \in SignedIn : Identify(name)
    \/ LeadingActivity
    \/ TimerFire
    \/ NewTab
    \/ \E name \in SignedIn : OtherTab(name)
    \/ ShortTick
    \/ IdleTick

SpecVisitor == InitVisitor /\ [][NextVisitor]_vars

(***************************************************************************)
(* sendEvent called for a render with any username, at any time, with the  *)
(* fingerprint changing once and durable entries running out in between.   *)
(***************************************************************************)
InitIdentity ==
    /\ Start({Null})
    /\ production
    /\ ~botUA
    /\ ~hidden
    /\ pathname = "/a"

\* The fingerprints the environment changes to: it changes once.
LaterFingerprints == Fingerprints \ {"fp1"}

SendCall(name) ==
    /\ Commit(SendEvent(Ctx, "pageview", pathname, name))
    /\ op' = "sendEvent"
    /\ UNCHANGED <<Env, hidden, mounted, listeners, pathname, username,
                   lastTrackedPath, isInitialized, Throttle, ret, burst, Aside>>

\* Forty days pass: every durable entry runs out.
ExpiryTick ==
    /\ Elapse(2 * LongStep, Aged(Aged(lstore, 2 * LongStep), 2 * LongStep))
    /\ UNCHANGED <<ret, burst>>

NextIdentity ==
    \/ \E name \in Usernames : SendCall(name)
    \/ \E fp \in LaterFingerprints : FingerprintChange(fp)
    \/ ExpiryTick

SpecIdentity == InitIdentity /\ [][NextIdentity]_vars

(***************************************************************************)
(* The storage adapter taken alone: its operations called in any order,    *)
(* on a working or an unavailable platform, with ten days passing between  *)
(* calls.  shadow[k] keeps, of the last setItem(k, v, ttl) that succeeded  *)
(* and that no removeItem(k) followed, v, ttl and the time since, in       *)
(* seconds.                                                                *)
(***************************************************************************)
\* What the calls leave alone.
Tracker ==
    <<Env, hidden, mounted, listeners, pathname, username, lastTrackedPath,
      isInitialized, heartbeatInterval, liveTimers, hbRemaining, hbPath, hbUser,
      heartbeatEnabled, currentInterval, isActive, Throttle, session_data,
      nextId, inFlight, nextStamp, sent, starts, op, ret, burst, firstOf, steady,
      seenIn, perf>>

\* What the calls on the platform's storage leave alone.
Rest == <<Tracker, lstore, sstore, result, shadow, tx, mw, rev>>

StorageKeys == {VisitorKey(FingerprintId("fp1"))}

StorageValues == {<<"a">>}

\* The ttls setItem is called with, in seconds: none, ten days, thirty days.
StorageTtls == {0, LongStep \div 1000, VISITOR}

CacheKeys == {VisitorCacheKey(FingerprintId("fp1"))}

CacheTexts == {"true", "false"}

InitStorage == InitIdentity

Returned(call, key, how, r) ==
    [call |-> call, key |-> key, how |-> how, returns |-> r.returns,
     threw |-> r.threw]

SetItemCall(key, value, ttl, how) ==
    \E r \in {LocalSetItem(lstore, key, value, ttl, how)} :
        /\ lstore' = r.store
        /\ result' = Returned("setItem", key, how, r)
        /\ shadow' = IF ~r.threw /\ r.returns
                     THEN [shadow EXCEPT ![key] =
                              <<[value |-> value, ttl |-> ttl, age |-> 0]>>]
                     ELSE shadow
        /\ UNCHANGED <<Tracker, sstore, tx, mw, rev, raw>>

GetItemCall(key, how) ==
    \E r \in {LocalGetItem(lstore, key, how)} :
        /\ lstore' = r.store
        /\ result' = Returned("getItem", key, how, r)
        /\ UNCHANGED <<Tracker, sstore, shadow, tx, mw, rev, raw>>

RemoveItemCall(key, how) ==
    \E r \in {LocalRemoveItem(lstore, key, how)} :
        /\ lstore' = r.store
        /\ result' = Returned("removeItem", key, how, r)
        /\ shadow' = IF how \notin {"server", "throws"}
                     THEN [shadow EXCEPT ![key] = <<>>]
                     ELSE shadow
        /\ UNCHANGED <<Tracker, sstore, tx, mw, rev, raw>>

SetVisitorCall(visitorId, how) ==
    \E r \in {SetVisitor(lstore, visitorId, how)} :
        /\ lstore' = r.store
        /\ result' = Returned("setVisitor", VisitorKey(visitorId), how, r)
        /\ shadow' = IF ~r.threw /\ r.returns
                     THEN [shadow EXCEPT ![VisitorKey(visitorId)] =
                              <<[value |-> <<"now">>, ttl |-> 30 * 24 * 60 * 60,
                                 age |-> 0]>>]
                     ELSE shadow
        /\ UNCHANGED <<Tracker, sstore, tx, mw, rev, raw>>

HasVisitorCall(visitorId, how) ==
    \E r \in {HasVisitor(lstore, visitorId, how)} :
        /\ lstore' = r.store
        /\ result' = Returned("hasVisitor", VisitorKey(visitorId), how, r)
        /\ UNCHANGED <<Tracker, sstore, shadow, tx, mw, rev, raw>>

SessionSetItemCall(key, text, how) ==
    \E r \in {SessionSetItem(sstore, key, text, how)} :
        /\ sstore' = r.store
        /\ result' = Returned("session.setItem", key, how, r)
        /\ UNCHANGED <<Tracker, lstore, shadow, tx, mw, rev, raw>>

SessionGetItemCall(key, how) ==
    \E r \in {SessionGetItem(sstore, key, how)} :
        /\ sstore' = r.store
        /\ result' = Returned("session.getItem", key, how, r)
        /\ UNCHANGED <<Tracker, lstore, shadow, tx, mw, rev, raw>>

SessionRemoveItemCall(key, how) ==
    \E r \in {SessionRemoveItem(sstore, key, how)} :
        /\ sstore' = r.store
        /\ result' = Returned("session.removeItem", key, how, r)
        /\ UNCHANGED <<Tracker, lstore, shadow, tx, mw, rev, raw>>

\* Ten days pass.
StorageTick ==
    /\ lstore' = Aged(lstore, LongStep)
    /\ shadow' = [k \in LocalKeys |->
                     IF shadow[k] = <<>>
                     THEN <<>>
                     ELSE <<[shadow[k][1] EXCEPT !.age =
                                Min(@ + LongStep \div 1000,
                                    VISITOR + LongStep \div 1000)]>>]
    /\ result' = NoResult
    /\ UNCHANGED <<Tracker, sstore, tx, mw, rev, raw>>

NextStorage ==
    \/ \E key \in StorageKeys, value \in StorageValues, ttl \in StorageTtls,
          how \in Outcomes : SetItemCall(key, value, ttl, how)
    \/ \E key \in StorageKeys, how \in Outcomes : GetItemCall(key, how)
    \/ \E key \in StorageKeys, how \in Outcomes : RemoveItemCall(key, how)
    \/ \E how \in Outcomes : SetVisitorCall(FingerprintId("fp1"), how)
    \/ \E how \in Outcomes : HasVisitorCall(FingerprintId("fp1"), how)
    \/ \E key \in CacheKeys, text \in CacheTexts, how \in Outcomes :
          SessionSetItemCall(key, text, how)
    \/ \E key \in CacheKeys, how \in Outcomes : SessionGetItemCall(key, how)
    \/ \E key \in CacheKeys, how \in Outcomes : SessionRemoveItemCall(key, how)
    \/ StorageTick

SpecStorage == InitStorage /\ [][NextStorage]_vars

(***************************************************************************)
(* The transmitter (src/src/send.ts) taken alone.  tx is the call in       *)
(* progress: the function, where it stands (pc), what the platform does to *)
(* it (beacon: navigator.sendBeacon is absent, returns true or false, or   *)
(* throws; headers: reading the request works or throws; fetched: how the  *)
(* fetch ended), whether control is back with the caller (returned) and    *)
(* how the promise of the async function settled.                          *)
(***************************************************************************)
Senders == {"sendHumanEvent", "sendPerformanceEvent"}

Beacons == {"absent", "true", "false", "throws"}

\* How an awaited fetch ends: a 2xx response, another response, or a
\* rejection with a TypeError, another Error, or a value that is no Error.
FetchOutcomes == {"ok", "non2xx", "TypeError", "Error", "other"}

\* The clock of a send in progress, and the longest a request may take by
\* the transmitter's contract (ms).
SendClockStep == 10000

TimeoutBudget == 30000

\* Faulty variant of Catch: the exception leaves the function.
CatchRethrows(step, fallback) == step

\* try { step } catch (error) { console...; fallback }
Catch(step, fallback) ==
    IF step.threw
    THEN [returns |-> fallback, threw |-> FALSE]
    ELSE step

InitSend == InitIdentity

\* What a finished async function leaves: its promise rejects if the
\* exception left it, else resolves.
Settled(t, step) ==
    [t EXCEPT !.pc = "done",
              !.returned = TRUE,
              !.settled = IF step.threw THEN "rejected" ELSE "resolved"]

\* sendHumanEvent or sendPerformanceEvent is called: the payload is
\* serialised and the beacon is tried unless forceFetch is set or
\* navigator.sendBeacon is missing.
SendCallStart(fn, forceFetch, beacon) ==
    /\ tx.pc \in {"idle", "done"}
    /\ tx' = [NoTx EXCEPT !.fn = fn,
                          !.forceFetch = forceFetch,
                          !.beacon = beacon,
                          !.pc = IF ~forceFetch /\ beacon # "absent"
                                 THEN "beacon"
                                 ELSE "fetch"]
    /\ UNCHANGED <<Tracker, lstore, sstore, result, shadow, mw, rev, raw>>

\* Faulty variant of BeaconAccepted: the result of sendBeacon is ignored.
BeaconAcceptedNever(step) == FALSE

\* if (navigator.sendBeacon(endpoint, blob)) { return; }
BeaconAccepted(step) == step.returns

\* The beacon block: done if sendBeacon returned true; else on to fetch.
BeaconStep ==
    /\ tx.pc = "beacon"
    /\ \E step \in {Catch([returns |-> tx.beacon = "true",
                           threw |-> tx.beacon = "throws"], FALSE)} :
           tx' = IF step.threw \/ BeaconAccepted(step)
                 THEN [Settled(tx, step) EXCEPT !.beacons = @ + 1]
                 ELSE [tx EXCEPT !.pc = "fetch", !.beacons = @ + 1]
    /\ UNCHANGED <<Tracker, lstore, sstore, result, shadow, mw, rev, raw>>

\* sendBotVisit is called: the async function it starts reads the request.
BotVisitStart(headers) ==
    /\ tx.pc \in {"idle", "done"}
    /\ tx' = [NoTx EXCEPT !.fn = "sendBotVisit", !.headers = headers,
                          !.pc = "headers"]
    /\ UNCHANGED <<Tracker, lstore, sstore, result, shadow, mw, rev, raw>>

\* sendBotVisit, lines 161-178: the request is read and sendBotEvent called.
HeadersStep ==
    /\ tx.pc = "headers"
    /\ \E step \in {Catch([returns |-> TRUE, threw |-> tx.headers = "throws"],
                          FALSE)} :
           tx' = IF step.threw \/ ~step.returns
                 THEN Settled(tx, step)
                 ELSE [tx EXCEPT !.pc = "fetch"]
    /\ UNCHANGED <<Tracker, lstore, sstore, result, shadow, mw, rev, raw>>

\* fetch is called inside the try block: the call throws at once, or hands
\* back a promise, which is awaited: control goes back to the caller.
FetchStep(throwsAtOnce) ==
    /\ tx.pc = "fetch"
    /\ \E step \in {Catch([returns |-> TRUE, threw |-> throwsAtOnce], FALSE)} :
           tx' = IF step.threw \/ ~step.returns
                 THEN [Settled(tx, step) EXCEPT !.fetched = "threw",
                                                !.fetches = @ + 1]
                 ELSE [tx EXCEPT !.pc = "awaiting", !.returned = TRUE,
                                 !.fetches = @ + 1]
    /\ UNCHANGED <<Tracker, lstore, sstore, result, shadow, mw, rev, raw>>

\* The awaited fetch ends.
SettleStep(outcome) ==
    /\ tx.pc = "awaiting"
    /\ \E step \in {Catch([returns |-> outcome = "ok",
                           threw |-> outcome \notin {"ok", "non2xx"}], FALSE)} :
           tx' = [Settled(tx, step) EXCEPT !.fetched = outcome]
    /\ UNCHANGED <<Tracker, lstore, sstore, result, shadow, mw, rev, raw>>

\* Time passes while the fetch is awaited and the endpoint has not answered.
\* Nothing in send.ts is armed to act on it: the options of fetch (lines
\* 42-49, 96-103, 132-139) carry no signal, and no timer is set.
SendTick ==
    /\ tx.pc = "awaiting"
    /\ tx.waited <= TimeoutBudget
    /\ tx' = [tx EXCEPT !.waited = @ + SendClockStep]
    /\ UNCHANGED <<Tracker, lstore, sstore, result, shadow, mw, rev, raw>>

NextSend ==
    \/ \E fn \in Senders, forceFetch \in BOOLEAN, beacon \in Beacons :
          SendCallStart(fn, forceFetch, beacon)
    \/ BeaconStep
    \/ \E headers \in {"ok", "throws"} : BotVisitStart(headers)
    \/ HeadersStep
    \/ \E throwsAtOnce \in BOOLEAN : FetchStep(throwsAtOnce)
    \/ \E outcome \in FetchOutcomes : SettleStep(outcome)
    \/ SendTick

SpecSend == InitSend /\ [][NextSend]_vars

(***************************************************************************)
(* The middleware (src/src/middleware-utils.ts) taken alone.  A request is *)
(* its pathname and its headers: per header name the value, or Null if the *)
(* request does not carry the header.  A value is a sequence of characters *)
(* where the code looks at them (user-agent) and one token otherwise.      *)
(***************************************************************************)
HeaderNames == {"user-agent", "host", "x-forwarded-for", "x-pathname"}

\* No header, an empty one, a browser, a crawler, a crawler of the host
\* platform, and a client of the host platform that is no crawler.
UserAgents == {Null, <<>>, <<"M", "z">>, <<"b", "o", "t">>,
               <<"V", "e", "r", "c", "e", "l", "b", "o", "t">>,
               <<"v", "e", "r", "c", "e", "l">>}

\* The user agents among UserAgents that the pattern of the isbot package
\* matches.
IsbotMatches == {<<"b", "o", "t">>,
                 <<"V", "e", "r", "c", "e", "l", "b", "o", "t">>}

PathText(p) == <<p>>

HeaderValues ==
    [n \in HeaderNames |->
        CASE n = "user-agent" -> UserAgents
          [] n = "host" -> {Null, <<"h">>}
          [] n = "x-forwarded-for" -> {Null, <<"ip">>}
          [] n = "x-pathname" -> {Null} \cup {PathText(p) : p \in Paths}]

Requests ==
    {[pathname |-> p, headers |-> h] :
        p \in Paths,
        h \in {f \in [HeaderNames -> UNION Range(HeaderValues)] :
                  \A n \in HeaderNames : f[n] \in HeaderValues[n]}}

\* new Headers(init): a list of its own with the entries of init.
NewHeaders(init) == [n \in DOMAIN init |-> init[n]]

\* Headers.prototype.get: the value, or null.
HeadersGet(h, name) == h[name]

\* Headers.prototype.set: the value replaces what the list holds for name.
HeadersSet(h, name, value) == [h EXCEPT ![name] = value]

\* x || y for a string or null x.
OrElse(x, y) == IF x = Null \/ x = <<>> THEN y ELSE x

\* The letter a regular expression with the i flag compares.
IgnoreCase(ch) == IF ch = "V" THEN "v" ELSE ch

\* /pattern/i.test(s) for a pattern of plain letters.
TestIgnoreCase(pattern, s) ==
    \E i \in 1 .. (Len(s) - Len(pattern) + 1) :
        \A j \in DOMAIN pattern : IgnoreCase(s[i + j - 1]) = pattern[j]

\* /vercel/i.test(userAgent)
IsVercelBot(userAgent) ==
    TestIgnoreCase(<<"v", "e", "r", "c", "e", "l">>, userAgent)

\* isbot(userAgent) of the isbot package: false for an empty string.
Isbot(userAgent) == userAgent # <<>> /\ userAgent \in IsbotMatches

\* Faulty variant of TracksBot: the host platform's crawlers are tracked.
TracksBotVercelToo(userAgent) == Isbot(userAgent)

\* if (isbot(userAgent) && !isVercelBot)
TracksBot(userAgent) == Isbot(userAgent) /\ ~IsVercelBot(userAgent)

\* headers.set('x-pathname', pathname)
WithPathname(headers, p) == HeadersSet(headers, "x-pathname", PathText(p))

InitMiddleware == InitIdentity

\* setupAnalyticsMiddleware(request)
SetupAnalyticsMiddleware(request) ==
    /\ mw' = [calls |-> 1,
              request |-> request,
              headers |-> WithPathname(NewHeaders(request.headers),
                                       request.pathname),
              pathname |-> request.pathname,
              tracked |-> TracksBot(OrElse(HeadersGet(request.headers,
                                                      "user-agent"), <<>>))]
    /\ UNCHANGED <<Tracker, lstore, sstore, result, shadow, tx, rev, raw>>

NextMiddleware == \E request \in Requests : SetupAnalyticsMiddleware(request)

SpecMiddleware == InitMiddleware /\ [][NextMiddleware]_vars

(***************************************************************************)
(* The tracker revision of src/unnamed/part_012, in production and with a  *)
(* human user agent.  rev holds its refs, whether its listeners are        *)
(* registered, its heartbeat timer (heartbeatIntervalRef is "undefined",   *)
(* "pending", or "cleared": the handle of a cancelled timer), its session  *)
(* (has: session_data is stored; idle: now - last_activity), the last      *)
(* handler that ran (op), the event types it sent (emitted), and whether   *)
(* that handler or the clock made the last step (at).                      *)
(***************************************************************************)
intervals012 == <<5000, 10000, 20000, 60000, 300000, 900000>>

\* The refs as useRef creates them at the first render.
Refs012 == [NoRev EXCEPT !.currentIntervalRef = 5000]

\* A handler starts.
Begin(r, name) ==
    [r EXCEPT !.op = name, !.at = "handler", !.emitted = <<>>,
              !.afterPause = FALSE]

\* sendAnalyticsEvent(eventType, ...)
Emit(r, eventType) == [r EXCEPT !.emitted = Append(@, eventType)]

\* intervals.indexOf(v) + 1: 0 stands for -1 (not found).
IndexIn(list, v) ==
    IF \E i \in DOMAIN list : list[i] = v
    THEN CHOOSE i \in DOMAIN list : list[i] = v
    ELSE 0

\* generateSessionId: the stored session if it is less than 30 min idle,
\* else a new one.
GenerateSessionId012(r) ==
    IF r.has /\ r.idle < SESSION_TIMEOUT
    THEN [r |-> r, isNewSession |-> FALSE]
    ELSE [r |-> [r EXCEPT !.has = TRUE, !.idle = 0], isNewSession |-> TRUE]

\* updateLastActivity
UpdateLastActivity012(r) == IF r.has THEN [r EXCEPT !.idle = 0] ELSE r

\* scheduleNextHeartbeat: the guards, and the timer set for
\* currentIntervalRef.current.
ScheduleNextHeartbeat012(r) ==
    IF ~r.heartbeatEnabledRef
    THEN r
    ELSE IF r.heartbeatIntervalRef # "undefined"
         THEN r
         ELSE [r EXCEPT !.heartbeatIntervalRef = "pending",
                        !.hbRemaining = r.currentIntervalRef]

\* The callback, from the interval progression on.
HeartbeatAdvance012(r, timeSinceActivity) ==
    ScheduleNextHeartbeat012(
        IF /\ timeSinceActivity > r.currentIntervalRef
           /\ IndexIn(intervals012, r.currentIntervalRef) < Len(intervals012)
        THEN [r EXCEPT !.currentIntervalRef =
                           intervals012[IndexIn(intervals012, @) + 1]]
        ELSE r)

\* Faulty variant of SoftInactive012: no idle time pauses the loop.
SoftInactiveNever(timeSinceActivity) == FALSE

\* The callback's soft-inactivity test: timeSinceActivity > 2 min.
SoftInactive012(timeSinceActivity) == timeSinceActivity > inactivityThreshold

\* The callback, once heartbeatIntervalRef.current is undefined.
HeartbeatDue012(r, timeSinceActivity) ==
    IF timeSinceActivity >= SESSION_TIMEOUT
    THEN [r EXCEPT !.heartbeatEnabledRef = FALSE]
    ELSE IF SoftInactive012(timeSinceActivity)
         THEN [r EXCEPT !.isActiveRef = FALSE]
         ELSE HeartbeatAdvance012(IF r.isActiveRef /\ ~r.hidden
                                  THEN Emit(r, "heartbeat")
                                  ELSE r,
                                  timeSinceActivity)

\* The callback scheduleNextHeartbeat passes to setTimeout.  With no stored
\* session timeSinceActivity is 0.
HeartbeatCallback012(r) ==
    HeartbeatDue012([r EXCEPT !.heartbeatIntervalRef = "undefined",
                              !.hbRemaining = 0],
                    IF r.has THEN r.idle ELSE 0)

\* handleActivity, from updateLastActivity on.
ActivityNoted012(r) ==
    IF r.heartbeatEnabledRef
    THEN ScheduleNextHeartbeat012(
             [UpdateLastActivity012(r) EXCEPT !.currentIntervalRef = 5000])
    ELSE [UpdateLastActivity012(r) EXCEPT !.currentIntervalRef = 5000]

\* handleActivity, the renewal, given g, what generateSessionId returned.
ActivityRenewed012(g) ==
    [(IF g.isNewSession
      THEN Emit(Emit(g.r, "session_start"), "pageview")
      ELSE g.r) EXCEPT !.heartbeatEnabledRef = TRUE]

\* handleActivity.  With no stored session timeSinceActivity is Infinity.
HandleActivity012(r) ==
    ActivityNoted012(
        IF ~r.has \/ r.idle > SESSION_TIMEOUT
        THEN ActivityRenewed012(
                 GenerateSessionId012([r EXCEPT !.isActiveRef = TRUE]))
        ELSE [r EXCEPT !.isActiveRef = TRUE])

\* handleVisibilityChange, with r.hidden what document.hidden is now.
HandleVisibilityChange012(r) ==
    IF r.hidden
    THEN IF r.heartbeatIntervalRef # "undefined"
         THEN [r EXCEPT !.heartbeatEnabledRef = FALSE,
                        !.heartbeatIntervalRef = "undefined",
                        !.hbRemaining = 0]
         ELSE [r EXCEPT !.heartbeatEnabledRef = FALSE]
    ELSE ScheduleNextHeartbeat012([r EXCEPT !.heartbeatEnabledRef = TRUE,
                                            !.isActiveRef = TRUE])

\* The cleanup the first run of the effect returns: the listeners go, the
\* pending timer is cancelled, the ref keeps the cancelled handle.
EffectCleanup012(r) ==
    [r EXCEPT !.listeners = FALSE,
              !.heartbeatIntervalRef = IF @ = "pending" THEN "cleared" ELSE @,
              !.hbRemaining = 0]

\* The first run of the effect, after generateSessionId returned g.  (What
\* cleanupOldSessionEntries removes from localStorage is no part of rev.)
EffectFirst012(g, currentPath) ==
    ScheduleNextHeartbeat012(
        [Emit(UpdateLastActivity012(IF g.isNewSession
                                    THEN Emit(g.r, "session_start")
                                    ELSE g.r),
              "pageview")
         EXCEPT !.lastTrackedPath = currentPath, !.listeners = TRUE])

\* The body of the useEffect for the render with pathname currentPath: the
\* first run installs the listeners and starts the loop; a later run only
\* sends the pageview of a changed path.
EffectBody012(r, currentPath) ==
    IF ~r.isInitialized
    THEN EffectFirst012(GenerateSessionId012([r EXCEPT !.isInitialized = TRUE]),
                        currentPath)
    ELSE IF currentPath # r.lastTrackedPath
         THEN [Emit(UpdateLastActivity012(r), "pageview")
               EXCEPT !.lastTrackedPath = currentPath]
         ELSE r

InitPart012 == InitIdentity

\* The first render and the first run of the effect.
Mount012 ==
    /\ rev.op = "init"
    /\ rev' = EffectBody012(Begin(Refs012, "mount"), Refs012.pathname)
    /\ UNCHANGED <<Tracker, lstore, sstore, result, shadow, tx, mw, raw>>

\* A client-side route change to p: the effect re-runs, after the cleanup
\* of its previous run if that run returned one (the first run only).
RouteChange012(p) ==
    /\ rev.isInitialized
    /\ p # rev.pathname
    /\ rev' = EffectBody012(
                  [(IF rev.listeners
                    THEN EffectCleanup012(Begin(rev, "route"))
                    ELSE Begin(rev, "route")) EXCEPT !.pathname = p],
                  p)
    /\ UNCHANGED <<Tracker, lstore, sstore, result, shadow, tx, mw, raw>>

\* An activity event reaches the listener and handleActivity runs.
Activity012 ==
    /\ rev.listeners
    /\ rev' = [HandleActivity012(Begin(rev, "activity"))
               EXCEPT !.afterPause = /\ rev.op = "timer"
                                     /\ ~rev.isActiveRef
                                     /\ rev.heartbeatEnabledRef]
    /\ UNCHANGED <<Tracker, lstore, sstore, result, shadow, tx, mw, raw>>

\* The heartbeat timer's callback.
TimerFire012 ==
    /\ rev.heartbeatIntervalRef = "pending"
    /\ rev.hbRemaining = 0
    /\ rev' = HeartbeatCallback012(Begin(rev, "timer"))
    /\ UNCHANGED <<Tracker, lstore, sstore, result, shadow, tx, mw, raw>>

\* The tab becomes hidden or visible; the listener runs if registered.
VisibilityChange012 ==
    /\ rev.isInitialized
    /\ rev' = IF rev.listeners
              THEN HandleVisibilityChange012(
                       [Begin(rev, "visibility") EXCEPT !.hidden = ~@])
              ELSE [Begin(rev, "visibility") EXCEPT !.hidden = ~@]
    /\ UNCHANGED <<Tracker, lstore, sstore, result, shadow, tx, mw, raw>>

\* A minute passes.
Tick012 ==
    /\ rev.isInitialized
    /\ rev' = [rev EXCEPT !.idle = IF rev.has
                                   THEN Older(@, ClockStep, SESSION_TIMEOUT + 1)
                                   ELSE @,
                          !.hbRemaining = Nearer(@, ClockStep),
                          !.at = "tick"]
    /\ UNCHANGED <<Tracker, lstore, sstore, result, shadow, tx, mw, raw>>

NextPart012 ==
    \/ Mount012
    \/ \E p \in Paths : RouteChange012(p)
    \/ Activity012
    \/ TimerFire012
    \/ VisibilityChange012
    \/ Tick012

SpecPart012 == InitPart012 /\ [][NextPart012]_vars

(***************************************************************************)
(* The tracker revision of src/unnamed/part_010, in production and with a  *)
(* human user agent, on a 5 s clock.  Its scheduleNextHeartbeat cancels    *)
(* the pending timer and sets a new one; its callback leaves the fired     *)
(* handle in heartbeatIntervalRef ("fired").  keepsActive says that from   *)
(* now on the user stays active in the visible tab: activity events keep   *)
(* arriving, each less than the minimum interval after the one before.     *)
(***************************************************************************)
intervals010 == <<15000, 60000, 300000, 900000>>

BeatStep == 5000

\* How far the clock of this revision's model runs past the last activity.
Horizon010 == inactivityThreshold

Refs010 == [NoRev EXCEPT !.currentIntervalRef = 15000]

\* generateSessionId and updateLastActivity read as in part_012.
GenerateSessionId010(r) == GenerateSessionId012(r)

UpdateLastActivity010(r) == UpdateLastActivity012(r)

\* scheduleNextHeartbeat: the timer the ref holds is cancelled and a new
\* one is set for currentIntervalRef.current.
ScheduleNextHeartbeat010(r) ==
    IF ~r.heartbeatEnabledRef
    THEN r
    ELSE [r EXCEPT !.heartbeatIntervalRef = "pending",
                   !.hbRemaining = r.currentIntervalRef]

\* The callback, from the interval progression on.
HeartbeatAdvance010(r, timeSinceActivity) ==
    ScheduleNextHeartbeat010(
        IF /\ timeSinceActivity > r.currentIntervalRef
           /\ IndexIn(intervals010, r.currentIntervalRef) < Len(intervals010)
        THEN [r EXCEPT !.currentIntervalRef =
                           intervals010[IndexIn(intervals010, @) + 1]]
        ELSE r)

\* The callback, given timeSinceActivity.
HeartbeatDue010(r, timeSinceActivity) ==
    IF timeSinceActivity >= SESSION_TIMEOUT
    THEN [r EXCEPT !.heartbeatEnabledRef = FALSE]
    ELSE IF timeSinceActivity > inactivityThreshold
         THEN [r EXCEPT !.isActiveRef = FALSE]
         ELSE HeartbeatAdvance010(IF r.isActiveRef /\ ~r.hidden
                                  THEN Emit(r, "heartbeat")
                                  ELSE r,
                                  timeSinceActivity)

\* The callback scheduleNextHeartbeat passes to setTimeout.  With no stored
\* session timeSinceActivity is 0.
HeartbeatCallback010(r) ==
    HeartbeatDue010([r EXCEPT !.heartbeatIntervalRef = "fired",
                              !.hbRemaining = 0],
                    IF r.has THEN r.idle ELSE 0)

\* handleActivity, from updateLastActivity on.
ActivityNoted010(r) ==
    IF r.heartbeatEnabledRef
    THEN ScheduleNextHeartbeat010(
             [UpdateLastActivity010(r) EXCEPT !.currentIntervalRef = 15000])
    ELSE [UpdateLastActivity010(r) EXCEPT !.currentIntervalRef = 15000]

\* The renewal in handleActivity and in handleVisibilityChange, given g,
\* what generateSessionId returned.
Renewed010(g) == IF g.isNewSession THEN Emit(g.r, "session_start") ELSE g.r

\* handleActivity.  With no stored session timeSinceActivity is Infinity.
HandleActivity010(r) ==
    ActivityNoted010(
        IF ~r.has \/ r.idle > SESSION_TIMEOUT
        THEN [Renewed010(GenerateSessionId010([r EXCEPT !.isActiveRef = TRUE]))
              EXCEPT !.heartbeatEnabledRef = TRUE]
        ELSE [r EXCEPT !.isActiveRef = TRUE])

\* handleVisibilityChange, with r.hidden what document.hidden is now.
HandleVisibilityChange010(r) ==
    IF r.hidden
    THEN [r EXCEPT !.heartbeatEnabledRef = FALSE,
                   !.heartbeatIntervalRef = IF @ = "pending" THEN "cleared" ELSE @,
                   !.hbRemaining = 0]
    ELSE ScheduleNextHeartbeat010(
             IF ~r.has \/ r.idle > SESSION_TIMEOUT
             THEN Renewed010(GenerateSessionId010(
                      [r EXCEPT !.heartbeatEnabledRef = TRUE,
                                !.isActiveRef = TRUE]))
             ELSE [r EXCEPT !.heartbeatEnabledRef = TRUE,
                            !.isActiveRef = TRUE])

\* The cleanup the first run of the effect returns.
EffectCleanup010(r) ==
    [r EXCEPT !.listeners = FALSE,
              !.heartbeatIntervalRef = IF @ = "pending" THEN "cleared" ELSE @,
              !.hbRemaining = 0]

\* The first run of the effect, after generateSessionId returned g.  (What
\* setSessionActive writes to localStorage is no part of rev.)
EffectFirst010(g, currentPath) ==
    ScheduleNextHeartbeat010(
        [Emit(UpdateLastActivity010(Renewed010(g)), "pageview")
         EXCEPT !.lastTrackedPath = currentPath, !.listeners = TRUE])

\* The body of the useEffect for the render with pathname currentPath.
EffectBody010(r, currentPath) ==
    IF ~r.isInitialized
    THEN EffectFirst010(GenerateSessionId010([r EXCEPT !.isInitialized = TRUE]),
                        currentPath)
    ELSE IF currentPath # r.lastTrackedPath
         THEN [Emit(UpdateLastActivity010(r), "pageview")
               EXCEPT !.lastTrackedPath = currentPath]
         ELSE r

InitPart010 == InitIdentity

\* The first render and the first run of the effect.
Mount010 ==
    /\ rev.op = "init"
    /\ rev' = EffectBody010(Begin(Refs010, "mount"), Refs010.pathname)
    /\ UNCHANGED <<Tracker, lstore, sstore, result, shadow, tx, mw, raw>>

\* A client-side route change to p: the cleanup of the previous run of the
\* effect, if it returned one, then the effect.
RouteChange010(p) ==
    /\ rev.isInitialized
    /\ ~rev.keepsActive
    /\ p # rev.pathname
    /\ rev' = EffectBody010(
                  [(IF rev.listeners
                    THEN EffectCleanup010(Begin(rev, "route"))
                    ELSE Begin(rev, "route")) EXCEPT !.pathname = p],
                  p)
    /\ UNCHANGED <<Tracker, lstore, sstore, result, shadow, tx, mw, raw>>

\* An activity event, more than the throttle delay after the one before,
\* reaches the listener and handleActivity runs.
Activity010 ==
    /\ rev.listeners
    /\ rev' = HandleActivity010(Begin(rev, "activity"))
    /\ UNCHANGED <<Tracker, lstore, sstore, result, shadow, tx, mw, raw>>

\* The heartbeat timer's callback.
TimerFire010 ==
    /\ rev.heartbeatIntervalRef = "pending"
    /\ rev.hbRemaining = 0
    /\ rev' = HeartbeatCallback010(Begin(rev, "timer"))
    /\ UNCHANGED <<Tracker, lstore, sstore, result, shadow, tx, mw, raw>>

\* The tab becomes hidden or visible; the listener runs if registered.
VisibilityChange010 ==
    /\ rev.isInitialized
    /\ ~rev.keepsActive
    /\ rev' = IF rev.listeners
              THEN HandleVisibilityChange010(
                       [Begin(rev, "visibility") EXCEPT !.hidden = ~@])
              ELSE [Begin(rev, "visibility") EXCEPT !.hidden = ~@]
    /\ UNCHANGED <<Tracker, lstore, sstore, result, shadow, tx, mw, raw>>

\* From now on the user stays active in the visible tab.
StayActive010 ==
    /\ ~rev.keepsActive
    /\ rev.listeners
    /\ ~rev.hidden
    /\ rev.has
    /\ rev.heartbeatEnabledRef
    /\ rev.isActiveRef
    /\ rev.idle < intervals010[1]
    /\ rev' = [Begin(rev, "stays") EXCEPT !.keepsActive = TRUE]
    /\ UNCHANGED <<Tracker, lstore, sstore, result, shadow, tx, mw, raw>>

\* 5 s pass; while the user stays active, only if that leaves the last
\* activity less than the minimum interval back.
Tick010 ==
    /\ rev.isInitialized
    /\ rev.idle <= Horizon010
    /\ rev.keepsActive => rev.idle + BeatStep < intervals010[1]
    /\ rev' = [rev EXCEPT !.idle = IF rev.has THEN @ + BeatStep ELSE @,
                          !.hbRemaining = Nearer(@, BeatStep),
                          !.at = "tick"]
    /\ UNCHANGED <<Tracker, lstore, sstore, result, shadow, tx, mw, raw>>

\* throttledHandleActivity: handleActivity at once when the last execution
\* is more than delay old, else the trailing timer is (re)scheduled.
\* inWindow says that Date.now() - lastExecTime <= delay.
ThrottledHandleActivity010(r) ==
    IF ~r.inWindow
    THEN [HandleActivity010([r EXCEPT !.op = "activity"]) EXCEPT !.inWindow = TRUE]
    ELSE [r EXCEPT !.op = "throttled", !.trailPending = TRUE]

\* An activity event reaches the listener.
Event010 ==
    /\ rev.listeners
    /\ rev' = ThrottledHandleActivity010(Begin(rev, "event"))
    /\ UNCHANGED <<Tracker, lstore, sstore, result, shadow, tx, mw, raw>>

\* The trailing timer's callback.  No cleanup cancels this timer.
TrailingFire010 ==
    /\ rev.trailPending
    /\ rev' = [HandleActivity010(Begin(rev, "trailing"))
               EXCEPT !.inWindow = TRUE, !.trailPending = FALSE]
    /\ UNCHANGED <<Tracker, lstore, sstore, result, shadow, tx, mw, raw>>

\* The component unmounts: the cleanup the first run of the effect
\* returned runs.
Unmount010 ==
    /\ rev.isInitialized
    /\ ~rev.gone
    /\ rev' = [(IF rev.listeners
                THEN EffectCleanup010(Begin(rev, "unmount"))
                ELSE Begin(rev, "unmount")) EXCEPT !.gone = TRUE]
    /\ UNCHANGED <<Tracker, lstore, sstore, result, shadow, tx, mw, raw>>

\* 5 s pass, once the trailing timer, due within 250 ms, has run.
Beat010 ==
    /\ rev.isInitialized
    /\ rev.idle <= Horizon010
    /\ ~rev.trailPending
    /\ rev' = [rev EXCEPT !.idle = IF rev.has THEN @ + BeatStep ELSE @,
                          !.hbRemaining = Nearer(@, BeatStep),
                          !.inWindow = FALSE,
                          !.at = "tick"]
    /\ UNCHANGED <<Tracker, lstore, sstore, result, shadow, tx, mw, raw>>

\* This revision from its mount to past its unmount, with the throttle.
NextUnmount010 ==
    \/ Mount010
    \/ Event010
    \/ TrailingFire010
    \/ TimerFire010
    \/ VisibilityChange010
    \/ Unmount010
    \/ Beat010

SpecUnmount010 == InitPart010 /\ [][NextUnmount010]_vars

NextPart010 ==
    \/ Mount010
    \/ \E p \in Paths : RouteChange010(p)
    \/ Activity010
    \/ TimerFire010
    \/ VisibilityChange010
    \/ StayActive010
    \/ Tick010

\* Time passes, a due timer fires, and an activity event that is possible
\* arrives.
SpecPart010 ==
    /\ InitPart010
    /\ [][NextPart010]_vars
    /\ WF_vars(Tick010)
    /\ WF_vars(TimerFire010)
    /\ WF_vars(Activity010)

(***************************************************************************)
(* Properties.                                                             *)
(***************************************************************************)
HandleActivityRan == {"activity", "trailing"}

EffectRan == {"mount", "rerun"}

Pageviews(events, path) ==
    {i \in DOMAIN events : /\ events[i].event_type = "pageview"
                           /\ events[i].path = path}

Heartbeats(events) ==
    {i \in DOMAIN events : events[i].event_type = "heartbeat"}

AllStarts(events) ==
    {i \in DOMAIN events : events[i].event_type = "session_start"}

\* A session_start for the session of sent[i] was sent in an earlier step,
\* or earlier in the same step.
AnnouncedBefore(i) ==
    LET s == sent[i].session_id
    IN  \/ starts[s] > StartsIn(sent, s)
        \/ \E j \in 1 .. (i - 1) : /\ sent[j].event_type = "session_start"
                                   /\ sent[j].session_id = s

\* C1: generateSessionId returns the stored session_id with isNewSession =
\* FALSE, and leaves session_data alone, exactly when a session is stored and
\* now - last_activity < 30 min; in every other case it returns a never-used
\* id with isNewSession = TRUE and persists {that id, last_activity: now}.
C1_GenerateSessionIdContract ==
    [][op' = "generateSessionId" =>
        IF session_data.session_id # 0 /\ session_data.idle < SESSION_TIMEOUT
        THEN /\ ret' = [sessionId |-> session_data.session_id, isNewSession |-> FALSE]
             /\ session_data' = session_data
        ELSE /\ ret'.isNewSession
             /\ ret'.sessionId >= nextId
             /\ ret'.sessionId # session_data.session_id
             /\ session_data' = [session_id |-> ret'.sessionId, idle |-> 0]]_vars

\* C1 witness: a call that found an expired stored session and minted.
C1_Witness ==
    /\ op = "generateSessionId"
    /\ ret.isNewSession
    /\ ret.sessionId >= 2
    /\ session_data = [session_id |-> ret.sessionId, idle |-> 0]

\* C2: no pageview or heartbeat carrying a session_id is sent unless a
\* session_start carrying that session_id was sent before it.
C2_EverySessionAnnounced ==
    \A i \in DOMAIN sent :
        sent[i].event_type \in {"pageview", "heartbeat"} => AnnouncedBefore(i)

\* C3: at most one session_start is ever sent per session_id, and a re-run
\* of the effect straight after the mount, with the same path, sends nothing:
\* the two runs together send the mount's one session_start at most.
C3_OneSessionStartPerSession ==
    /\ [](\A s \in SessionIds : starts[s] <= 1)
    /\ [][(op = "mount" /\ op' = "rerun" /\ pathname' = pathname) =>
            /\ sent' = <<>>
            /\ Cardinality(AllStarts(sent)) <= 1]_vars

\* C3 witness: the effect re-ran on an initialized tracker whose session
\* has its one session_start, and sent nothing.
C3_Witness ==
    /\ op = "rerun"
    /\ isInitialized
    /\ sent = <<>>
    /\ session_data.session_id # 0
    /\ starts[session_data.session_id] = 1

\* C4: the first mount in production for a non-bot client sends exactly one
\* pageview for the current path, whether or not the session is new.
C4_FirstMountSendsPageview ==
    (op = "mount" /\ production /\ ~botUA) =>
        Cardinality(Pageviews(sent, pathname)) = 1

\* C5: handleActivity run with now - last_activity >= 30 min discards the
\* session_id and mints a new one before last_activity is written; run with
\* now - last_activity < 30 min it keeps the session_id and sets
\* last_activity to now.
C5_ActivityNeverExtendsInvalidSession ==
    [][(op' \in HandleActivityRan /\ session_data.session_id # 0) =>
        IF session_data.idle >= SESSION_TIMEOUT
        THEN /\ session_data'.session_id # session_data.session_id
             /\ session_data'.idle = 0
        ELSE session_data' = [session_data EXCEPT !.idle = 0]]_vars

\* C6: a heartbeat timer fire and a visibility change leave session_id and
\* last_activity as they are; session_data is written only by the effect
\* (mount, route change) and by handleActivity.
C6_OnlyActivityAndEffectWriteSession ==
    [][/\ op' \in {"timer", "visibility"} => session_data' = session_data
       /\ (\/ session_data'.session_id # session_data.session_id
           \/ session_data'.idle < session_data.idle)
          => op' \in EffectRan \cup HandleActivityRan]_vars

\* C6 witness: a timer fire built and sent a heartbeat, and last_activity is
\* still the older time.
C6_Witness ==
    /\ op = "timer"
    /\ Heartbeats(sent) # {}
    /\ session_data.idle > 0

\* C7: no heartbeat is handed to the transmitter while document.hidden.
C7_NoHeartbeatWhileHidden ==
    \A i \in Heartbeats(sent) : ~sent[i].hidden

\* C8: a timer fire at which now - last_activity >= 30 min sends nothing,
\* sets heartbeatEnabled to false and schedules no further timer.
C8_HardCutoff ==
    [][(op' = "timer" /\ session_data.session_id # 0
                      /\ session_data.idle >= SESSION_TIMEOUT) =>
            /\ sent' = <<>>
            /\ ~heartbeatEnabled'
            /\ heartbeatInterval' = "undefined"]_vars

\* C8 witness: the timer fired exactly 30 min after the last activity (the
\* fire at t = 35 min after an activity at t = 5 min) and cut off.
C8_Witness ==
    /\ op = "timer"
    /\ session_data.session_id # 0
    /\ session_data.idle = SESSION_TIMEOUT
    /\ ~heartbeatEnabled
    /\ heartbeatInterval = "undefined"
    /\ sent = <<>>

\* C9: N >= 2 activity events, all inside the 250 ms window that a
\* leading-edge execution opened, run handleActivity exactly twice: at the
\* first event, and by the trailing timer 250 ms later, which is at or after
\* the last event of the burst.
C9_LeadingPlusOneTrailing ==
    (burst.events >= 2 /\ burst.inside) =>
        /\ burst.age < delay =>
              /\ burst.execs = 1
              /\ trailPending
              /\ trailRemaining = delay - burst.age
        /\ burst.age = delay =>
              \/ burst.execs = 1 /\ trailPending /\ trailRemaining = 0
              \/ burst.execs = 2 /\ ~trailPending
        /\ burst.age > delay => burst.execs = 2 /\ ~trailPending
        /\ burst.execs = 2 => burst.trailAt = delay /\ burst.trailAt >= burst.lastEvent

\* C9 witness: a burst of three events is over and handleActivity ran twice.
C9_Witness ==
    /\ burst.events = 3
    /\ burst.inside
    /\ burst.lastEvent > 0
    /\ burst.age > delay
    /\ burst.execs = 2

\* C10: after the cleanup has run on unmount no heartbeat timer is live and
\* no heartbeat is sent.
C10_NothingAfterUnmount ==
    mounted = "gone" =>
        /\ heartbeatInterval # "pending"
        /\ Heartbeats(sent) = {}

\* C11: outside production, or with a user agent classified as a bot, the
\* tracker has sent no event, has no activity or visibility listener
\* installed, has no heartbeat timer pending or referenced and has written
\* nothing to either storage, after the mount and after every later run of
\* the effect.
C11_InertOutsideProductionOrBot ==
    (~production \/ botUA) =>
        /\ sent = <<>>
        /\ \A s \in SessionIds : starts[s] = 0 /\ firstOf[s] = <<>>
        /\ ~listeners
        /\ ~trailPending
        /\ heartbeatInterval = "undefined"
        /\ session_data = NoSession
        /\ sstore = EmptySession
        /\ lstore = EmptyLocal

\* A bot in production after a route change.
C11_Witness ==
    /\ production
    /\ botUA
    /\ op = "rerun"
    /\ pathname # lastTrackedPath

\* C12 as stated: every event built for a non-empty username carries the
\* slug of that username as visitor_id, whatever was stored and whatever was
\* called before, and is_new_visitor = false.
C12_NonEmptyUsernameSlug ==
    \A i \in DOMAIN sent :
        sent[i].visitor_name \notin {Null, <<>>} =>
            /\ sent[i].visitor_id = CleanUsername(sent[i].visitor_name)
            /\ ~sent[i].is_new_visitor

\* C12, amended: every event built for a username that is not empty after
\* trimming carries the slug of that username as visitor_id, whatever was
\* stored and whatever was called before, and is_new_visitor = false.
C12_SuppliedUsernameSlug ==
    \A i \in DOMAIN sent :
        IsSupplied(sent[i].visitor_name) =>
            /\ sent[i].visitor_id = CleanUsername(sent[i].visitor_name)
            /\ ~sent[i].is_new_visitor

\* An event for a username with a slug, built after events with the
\* fingerprint's id and with the slug of another username, while another id
\* is stored.
C12_Witness ==
    /\ op = "sendEvent"
    /\ sent # <<>>
    /\ sent[1].visitor_name = <<"A", " ", "@">>
    /\ sent[1].visitor_id = <<"a">>
    /\ seenIn[UnknownUser] # 0
    /\ seenIn[FingerprintId(fingerprint)] # 0
    /\ seenIn[<<"a">>] > seenIn[UnknownUser]

\* C13: every event built with no username (null, empty or blank) carries a
\* visitor_id derived from a fingerprint, the current one or one stored
\* earlier, and never one derived from a username.
C13_AnonymousIdFromFingerprint ==
    \A i \in DOMAIN sent :
        ~IsSupplied(sent[i].visitor_name) => sent[i].visitor_id \in FingerprintIds

\* C14: an event built for an anonymous visitor carries is_new_visitor =
\* true only in the first session in which its visitor id is seen; every
\* event of a later session of that visitor carries false.
C14_NewVisitorOnlyInFirstSession ==
    \A i \in DOMAIN sent :
        (~IsSupplied(sent[i].visitor_name) /\ sent[i].is_new_visitor) =>
            seenIn[sent[i].visitor_id] = sent[i].session_id

\* C15: within one session during which the component had no username and
\* every event was built with one and the same fingerprint, every event
\* carries the is_new_visitor value of the session's first event.
C15_SameNewVisitorWithinSession ==
    \A i \in DOMAIN sent :
        steady[sent[i].session_id] =>
            \A f \in Range(firstOf[sent[i].session_id]) :
                sent[i].is_new_visitor = f.is_new_visitor

\* C16: every event carries the session_start_time of the first event built
\* with its session_id.
C16_SessionStartTimeSetOnce ==
    \A i \in DOMAIN sent :
        \A f \in Range(firstOf[sent[i].session_id]) :
            sent[i].session_start_time = f.session_start_time

\* A heartbeat of the second session, built in a later step than the
\* session's first event, while the first session had another start time.
C16_Witness ==
    /\ op = "timer"
    /\ sent # <<>>
    /\ sent[1].session_id = 2
    /\ firstOf[1] # <<>>
    /\ firstOf[1][1].session_start_time # sent[1].session_start_time
    /\ firstOf[2][1].session_start_time = sent[1].session_start_time

\* C17: in production with a human user agent, a run of the effect with a
\* pathname that differs from lastTrackedPath sends exactly one pageview, for
\* the new pathname, and leaves last_activity = now; a run with the pathname
\* unchanged and the stored session still valid sends no event.
C17_PageviewOnPathChange ==
    [][(op' \in EffectRan /\ production /\ ~botUA) =>
          /\ pathname' # lastTrackedPath =>
                /\ Cardinality(Pageviews(sent', pathname')) = 1
                /\ \A p \in Paths \ {pathname'} : Pageviews(sent', p) = {}
                /\ session_data'.session_id # 0
                /\ session_data'.idle = 0
          /\ ( /\ pathname' = lastTrackedPath
               /\ session_data.session_id # 0
               /\ SessionStillValid(session_data.idle) ) => sent' = <<>>]_vars

\* A route change within the first session: one pageview for the new path
\* and nothing else, last_activity = now.
C17_Witness ==
    /\ op = "rerun"
    /\ nextId = 2
    /\ Len(sent) = 1
    /\ sent[1].event_type = "pageview"
    /\ sent[1].path = pathname
    /\ sent[1].session_id = 1
    /\ session_data.idle = 0

\* C18: after a setItem(k, v, ttl) that succeeded, getItem(k) on a working
\* platform returns v as long as no more than ttl has passed, and once more
\* has passed it returns null and leaves the key absent; hasVisitor answers
\* accordingly, and setVisitor writes its entry with a ttl of 30 days.
C18_TtlAndLazyEviction ==
    /\ (result.call = "getItem" /\ result.how = "ok" /\ shadow[result.key] # <<>>) =>
          IF shadow[result.key][1].age <= shadow[result.key][1].ttl
          THEN /\ result.returns = shadow[result.key][1].value
               /\ lstore[result.key].present
          ELSE /\ result.returns = Null
               /\ ~lstore[result.key].present
    /\ (result.call = "hasVisitor" /\ result.how = "ok" /\ shadow[result.key] # <<>>) =>
          result.returns = (shadow[result.key][1].age <= shadow[result.key][1].ttl)
    /\ (result.call = "setVisitor" /\ result.how = "ok") =>
          /\ result.returns
          /\ lstore[result.key].present
          /\ lstore[result.key].left = 30 * 24 * 60 * 60

\* A visitor entry read forty days after setVisitor wrote it: null, and the
\* key is gone.
C18_Witness ==
    /\ result.call = "getItem"
    /\ result.how = "ok"
    /\ shadow[result.key] # <<>>
    /\ shadow[result.key][1].value = <<"now">>
    /\ shadow[result.key][1].age > shadow[result.key][1].ttl
    /\ result.returns = Null
    /\ ~lstore[result.key].present

\* C19: no operation of either storage class throws, whatever the platform
\* does; in a non-browser context or when the underlying storage call
\* throws, setItem returns false, getItem returns null, removeItem returns,
\* hasVisitor answers false, and both storages are left as they were.
C19_StorageNeverThrows ==
    [][(result' # result /\ result'.call # "none") =>
          /\ ~result'.threw
          /\ result'.how \in {"server", "throws"} =>
                /\ lstore' = lstore
                /\ sstore' = sstore
                /\ result'.call \in {"setItem", "setVisitor"} => result'.returns = FALSE
                /\ result'.call = "hasVisitor" => result'.returns = FALSE
                /\ result'.call = "getItem" => result'.returns = Null
                /\ result'.call = "session.setItem" => result'.returns = "false"
                /\ result'.call = "session.getItem" => result'.returns = "null"]_vars

\* getItem of a stored, unexpired entry when localStorage.getItem throws:
\* null is returned and the entry is still there.
C19_Witness ==
    /\ result.call = "getItem"
    /\ result.how = "throws"
    /\ ~result.threw
    /\ result.returns = Null
    /\ lstore[result.key].present
    /\ ~Expired(lstore[result.key].left)

\* C20: whatever the beacon call and fetch do, the promise of sendHumanEvent
\* and of sendPerformanceEvent never rejects and is resolved once the
\* function is done, sendBotVisit is back with its caller before anything is
\* awaited, and the promise of the function it starts never rejects.
C20_SendNeverFails ==
    /\ tx.settled # "rejected"
    /\ tx.pc = "done" => (tx.settled = "resolved" /\ tx.returned)
    /\ tx.pc = "awaiting" => tx.returned

\* sendHumanEvent done after the beacon threw and the fetch was rejected
\* with a TypeError.
C20_Witness ==
    /\ tx.fn = "sendHumanEvent"
    /\ tx.pc = "done"
    /\ tx.beacon = "throws"
    /\ ~tx.forceFetch
    /\ tx.fetched = "TypeError"
    /\ tx.settled = "resolved"

C22_FetchAbortedAtBudget ==
    (tx.fn \in Senders /\ tx.waited > TimeoutBudget) => tx.pc # "awaiting"

\* C23 as stated: after a call of setupAnalyticsMiddleware the returned
\* headers hold every header of the request with the request's value, and
\* x-pathname with the request pathname; trackBotVisit was called exactly
\* if the user agent is a bot for isbot and does not match /vercel/i.
C23_HeadersKeptAndBotsTracked ==
    mw.calls = 1 =>
        /\ \A n \in HeaderNames :
               mw.request.headers[n] # Null =>
                   mw.headers[n] = mw.request.headers[n]
        /\ mw.headers["x-pathname"] = PathText(mw.request.pathname)
        /\ mw.tracked <=>
               /\ Isbot(OrElse(mw.request.headers["user-agent"], <<>>))
               /\ ~IsVercelBot(OrElse(mw.request.headers["user-agent"], <<>>))

\* C23, amended: after a call of setupAnalyticsMiddleware the returned
\* headers hold every header of the request other than x-pathname with the
\* request's value and no header the request did not carry, and x-pathname
\* with the request pathname, whatever x-pathname the request carried; the
\* request and the returned pathname are the request's own; trackBotVisit
\* was called exactly if the user agent is a bot for isbot and does not
\* match /vercel/i, so never for a user agent that is no bot.
C23_OtherHeadersKeptAndBotsTracked ==
    mw.calls = 1 =>
        /\ \A n \in HeaderNames \ {"x-pathname"} :
               mw.headers[n] = mw.request.headers[n]
        /\ mw.headers["x-pathname"] = PathText(mw.request.pathname)
        /\ mw.pathname = mw.request.pathname
        /\ mw.tracked <=>
               /\ Isbot(OrElse(mw.request.headers["user-agent"], <<>>))
               /\ ~IsVercelBot(OrElse(mw.request.headers["user-agent"], <<>>))
        /\ ~Isbot(OrElse(mw.request.headers["user-agent"], <<>>)) =>
               ~mw.tracked

\* A crawler's request for /a that carries x-pathname: /b and a host: it
\* is tracked, and the returned x-pathname is /a.
C23_Witness ==
    /\ mw.calls = 1
    /\ mw.request.pathname = "/a"
    /\ mw.request.headers["x-pathname"] = PathText("/b")
    /\ mw.request.headers["host"] # Null
    /\ mw.request.headers["user-agent"] = <<"b", "o", "t">>
    /\ mw.headers["x-pathname"] = PathText("/a")
    /\ mw.tracked

\* C24: in every reachable state at most one heartbeat timer is live (set
\* and neither fired nor cancelled), and a live timer is the one
\* heartbeatInterval.current refers to, whatever the order of mounts,
\* effect re-runs, activity, visibility changes and timer callbacks.
C24_AtMostOneLiveTimer ==
    /\ liveTimers \in {0, 1}
    /\ liveTimers = 1 <=> heartbeatInterval = "pending"

\* handleActivity has just called scheduleNextHeartbeat while the timer of
\* an earlier call was pending and already due.
C24_Witness ==
    /\ op \in HandleActivityRan
    /\ heartbeatEnabled
    /\ heartbeatInterval = "pending"
    /\ hbRemaining = 0
    /\ liveTimers = 1

\* C25: once handleActivity has run in a mounted tracker with heartbeats
\* enabled and the tab visible, a heartbeat timer is pending and is due no
\* later than the minimum interval after that activity.
C25_FireWithinMinimumAfterActivity ==
    (/\ op \in HandleActivityRan
     /\ mounted = "yes"
     /\ heartbeatEnabled
     /\ ~hidden)
        => (heartbeatInterval = "pending" /\ hbRemaining <= intervals[1])

\* C29: a heartbeat timer fire that sets the next timer moves
\* current_interval to the next step of the sequence exactly if
\* now - last_activity exceeds the current interval and a larger step
\* exists, and leaves it unchanged otherwise.
C29_AdvanceOnlyWhenIdleExceedsInterval ==
    [][(op' = "timer" /\ heartbeatInterval' = "pending")
           => currentInterval' =
                  IF /\ session_data.idle > currentInterval
                     /\ IndexOfInterval(currentInterval) # 0
                     /\ IndexOfInterval(currentInterval) < Len(intervals)
                  THEN intervals[IndexOfInterval(currentInterval) + 1]
                  ELSE currentInterval]_vars

C26_LoopSurvivesRouteChange ==
    (rev.op = "route" /\ rev.isInitialized) =>
        /\ rev.listeners
        /\ (rev.heartbeatEnabledRef /\ rev.isActiveRef) =>
               rev.heartbeatIntervalRef = "pending"

\* C28: in the revision of part_012, with the listeners of the first mount
\* registered, a heartbeat timer fire with 2 min < now - last_activity <
\* 30 min sends no event, sets isActive to false, leaves heartbeatEnabled
\* true and sets no timer; if the next handler to run is handleActivity, it
\* sets isActive to true and sets a timer for the minimum interval, 5 s.
C28_SoftPauseAndResume ==
    [][/\ (/\ rev'.at = "handler"
           /\ rev'.op = "timer"
           /\ rev.listeners
           /\ rev.has
           /\ rev.idle > inactivityThreshold
           /\ rev.idle < SESSION_TIMEOUT)
              => /\ rev'.emitted = <<>>
                 /\ ~rev'.isActiveRef
                 /\ rev'.heartbeatEnabledRef
                 /\ rev'.heartbeatIntervalRef # "pending"
       /\ (/\ rev'.at = "handler"
           /\ rev'.op = "activity"
           /\ rev.op = "timer"
           /\ ~rev.isActiveRef
           /\ rev.heartbeatEnabledRef)
              => /\ rev'.isActiveRef
                 /\ rev'.heartbeatIntervalRef = "pending"
                 /\ rev'.currentIntervalRef = intervals012[1]
                 /\ rev'.hbRemaining = intervals012[1]]_vars

\* handleActivity has run as the first handler after a timer fire that
\* soft-paused the loop, less than 30 min after the last activity.
C28_Witness ==
    /\ rev.op = "activity"
    /\ rev.afterPause
    /\ rev.emitted = <<>>
    /\ rev.isActiveRef
    /\ rev.heartbeatIntervalRef = "pending"
    /\ rev.hbRemaining = 5000

\* C27: in the revision of part_010, while the user stays active in a
\* visible tab with a valid session (activity events keep arriving, each
\* less than 15 s after the one before), the heartbeat timer eventually
\* fires and a heartbeat is sent.
C27_HeartbeatWhileActive ==
    rev.keepsActive ~>
        (/\ rev.op = "timer"
         /\ \E i \in DOMAIN rev.emitted : rev.emitted[i] = "heartbeat")

(***************************************************************************)
(* C31.  Left alone after its mount, with storage working, the heartbeat   *)
(* loop terminates: a timer callback that finds 30 minutes or more of      *)
(* inactivity disables heartbeats, sets no timer and sends nothing, and    *)
(* from some moment on no heartbeat timer is pending and no heartbeat is   *)
(* sent, for ever.                                                         *)
(***************************************************************************)
C31_QuietLoopTerminates ==
    /\ <>[](/\ mounted = "yes"
            /\ liveTimers = 0
            /\ heartbeatInterval # "pending"
            /\ Heartbeats(sent) = {}
            /\ (production /\ ~botUA) => ~heartbeatEnabled)
    /\ [][(/\ op' = "timer"
           /\ session_data.session_id # 0
           /\ session_data.idle >= SESSION_TIMEOUT)
              => /\ ~heartbeatEnabled'
                 /\ liveTimers' = 0
                 /\ heartbeatInterval' = "undefined"
                 /\ sent' = <<>>]_vars

\* The callback has just found the session 30 minutes idle, after the
\* interval had gone through its whole sequence, and has stopped the loop.
C31_Witness ==
    /\ op = "timer"
    /\ mounted = "yes"
    /\ production
    /\ session_data.session_id # 0
    /\ session_data.idle >= SESSION_TIMEOUT
    /\ currentInterval = intervals[Len(intervals)]
    /\ ~heartbeatEnabled
    /\ liveTimers = 0

(***************************************************************************)
(* C32.  Left alone after its mount while sessionStorage is unavailable,   *)
(* the tracker still stops: from some moment on no heartbeat is sent and   *)
(* no heartbeat timer is pending, for ever.                                *)
(***************************************************************************)
C32_CutoffWithoutSessionStorage ==
    <>[](/\ Heartbeats(sent) = {}
         /\ liveTimers = 0
         /\ heartbeatInterval # "pending")

(***************************************************************************)
(* C33.  In the revision of part_010, once the effect's cleanup has run at *)
(* the unmount, no heartbeat timer is live and no heartbeat is sent,       *)
(* whether or not a trailing throttle timer was pending at the unmount.    *)
(***************************************************************************)
C33_NothingAfterCleanup010 ==
    rev.gone =>
        /\ rev.heartbeatIntervalRef # "pending"
        /\ \A i \in DOMAIN rev.emitted : rev.emitted[i] # "heartbeat"

(***************************************************************************)
(* C34.  generateSessionId is a pure read while the stored session is      *)
(* valid: called when now - last_activity < 30 min, it returns the stored  *)
(* session_id, reports no new session, and changes neither sessionStorage  *)
(* (last_activity included) nor localStorage; so repeated calls return the *)
(* same id.                                                                *)
(***************************************************************************)
C34_ValidSessionPureRead ==
    [][(/\ op' = "generateSessionId"
        /\ session_data.session_id # 0
        /\ session_data.idle < SESSION_TIMEOUT)
           => /\ ret'.sessionId = session_data.session_id
              /\ ~ret'.isNewSession
              /\ session_data' = session_data
              /\ sstore' = sstore
              /\ lstore' = lstore
              /\ nextId' = nextId]_vars

\* A call has just returned the id of a session that was stored some time
\* ago and is still valid, and last_activity is as old as it was.
C34_Witness ==
    /\ op = "generateSessionId"
    /\ ~ret.isNewSession
    /\ ret.sessionId = session_data.session_id
    /\ session_data.idle > 0
    /\ session_data.idle < SESSION_TIMEOUT

(***************************************************************************)
(* C35.  A send that never completes delays nothing.  The timer callback   *)
(* that hands a heartbeat to the transmitter sets the next timer, for the  *)
(* current interval, in the same step; and handleActivity runs to its end  *)
(* (last_activity refreshed, the interval back at its minimum, the         *)
(* heartbeat scheduled if heartbeats are enabled), however many earlier    *)
(* sends are outstanding.                                                  *)
(***************************************************************************)
C35_HungSendDelaysNothing ==
    [][/\ (op' = "timer" /\ Heartbeats(sent') # {})
              => /\ heartbeatInterval' = "pending"
                 /\ liveTimers' = 1
                 /\ hbRemaining' = currentInterval'
       /\ op' \in {"activity", "trailing"}
              => /\ isActive'
                 /\ session_data'.idle = 0
                 /\ currentInterval' = intervals[1]
                 /\ sinceLastExec' = 0
                 /\ heartbeatEnabled' => heartbeatInterval' = "pending"]_vars

\* The timer has fired and handed over a heartbeat while the sends of the
\* mount were still outstanding, and the next timer is set.
C35_Witness ==
    /\ network = "hung"
    /\ op = "timer"
    /\ Heartbeats(sent) # {}
    /\ inFlight = MaxInFlight
    /\ heartbeatInterval = "pending"

(***************************************************************************)
(* C36.  Only the pageview of the first load carries a referrer: an event  *)
(* that carries one is a pageview sent by the first run of the effect, and *)
(* the pageviews sent for a later route change or for a session renewal    *)
(* carry none.                                                             *)
(***************************************************************************)
C36_ReferrerOnFirstLoadOnly ==
    \A i \in DOMAIN sent :
        sent[i].referrer # Null =>
            /\ sent[i].event_type = "pageview"
            /\ op = "mount"

(***************************************************************************)
(* C37.  At most one performance event is sent per page visit (a maximal   *)
(* period during which the pathname is unchanged), and a performance event *)
(* reports the path of the visit whose pageview set its timer.             *)
(***************************************************************************)
C37_OnePerfEventPerVisit ==
    /\ perf.inVisit <= 1
    /\ \A i \in DOMAIN perf.last : perf.last[i].page = perf.last[i].for

(***************************************************************************)
(* C38.  Two consecutive executions of handleActivity through              *)
(* throttledHandleActivity are at least 250 ms apart: whenever it runs, at *)
(* the leading edge or from the trailing timer, at its due time or later,  *)
(* the execution before it is at least delay old.                          *)
(***************************************************************************)
C38_ExecutionsDelayApart ==
    [][op' \in {"activity", "trailing"} => sinceLastExec >= delay]_vars

(***************************************************************************)
(* The storage adapter on the platform's storage.  localStorage and        *)
(* sessionStorage are shared by every script of the origin, so they hold   *)
(* keys of other code next to the adapter's.  A key is its text, with      *)
(* "analytics_" one token of it.  An entry is absent, an item (the JSON    *)
(* text of {value, expiry}; left = expiry - Date.now() in seconds), old    *)
(* (a bare timestamp as earlier versions wrote it: JSON.parse yields a     *)
(* number, the text holds no "expiry":; left = the time until the          *)
(* timestamp is DEFAULT_TTL.VISITOR old), or text (anything JSON.parse     *)
(* throws on).  how is "ok" or "throws" (the first platform call throws).  *)
(***************************************************************************)
ANALYTICS_STORAGE_PREFIX == <<"analytics_">>

\* `${ANALYTICS_STORAGE_PREFIX}${key}`
Prefixed(key) == ANALYTICS_STORAGE_PREFIX \o key

\* key.startsWith(prefix)
StartsWith(key, prefix) ==
    /\ Len(key) >= Len(prefix)
    /\ SubSeq(key, 1, Len(prefix)) = prefix

\* The keys the adapter's callers pass, and the visitor ids.
RawLogicalKeys == {VisitorIdKey, <<"session_start_", "1">>}

RawVisitors == {<<"v">>}

\* Keys of other code: the same names without the prefix, a name that
\* shares the prefix's letters but not its underscore, and an unrelated one.
ForeignKeys ==
    RawLogicalKeys \cup {VisitorKey(v) : v \in RawVisitors}
        \cup {<<"analytics">>, <<"theme">>}

RawKeys ==
    {Prefixed(k) : k \in RawLogicalKeys}
        \cup {Prefixed(VisitorKey(v)) : v \in RawVisitors}
        \cup ForeignKeys

Absent == [kind |-> "absent", value |-> Null, left |-> 0]

RawItem(value, left) == [kind |-> "item", value |-> value, left |-> left]

OldEntry(left) == [kind |-> "old", value |-> <<"timestamp">>, left |-> left]

TextEntry == [kind |-> "text", value |-> <<"text">>, left |-> 0]

\* AnalyticsStorage.setItem on localStorage
RawSetItem(store, key, value, ttl, how) ==
    IF how = "ok"
    THEN [store EXCEPT ![Prefixed(key)] = RawItem(value, ttl)]
    ELSE store

\* AnalyticsStorage.getItem on localStorage: an expired item is removed;
\* a bare timestamp has no expiry, and Date.now() > undefined is false;
\* JSON.parse of other text throws and the catch returns null.
RawGetItem(store, key, how) ==
    IF how = "ok" /\ store[Prefixed(key)].kind = "item"
                  /\ Expired(store[Prefixed(key)].left)
    THEN [store EXCEPT ![Prefixed(key)] = Absent]
    ELSE store

\* AnalyticsStorage.removeItem on localStorage
RawRemoveItem(store, key, how) ==
    IF how = "ok" THEN [store EXCEPT ![Prefixed(key)] = Absent] ELSE store

\* AnalyticsStorage.setVisitor on localStorage
RawSetVisitor(store, visitorId, how) ==
    RawSetItem(store, VisitorKey(visitorId), <<"now">>, VISITOR, how)

\* AnalyticsStorage.hasVisitor on localStorage
RawHasVisitor(store, visitorId, how) ==
    RawGetItem(store, VisitorKey(visitorId), how)

ObsoletePrefixes ==
    {Prefixed(<<"session_start_">>), Prefixed(<<"session_active_">>)}

\* AnalyticsStorage.cleanupOldSessionEntries
CleanupOldSessionEntries(store, how) ==
    IF how = "ok"
    THEN [k \in RawKeys |->
             IF /\ store[k].kind # "absent"
                /\ \E prefix \in ObsoletePrefixes : StartsWith(k, prefix)
             THEN Absent
             ELSE store[k]]
    ELSE store

\* Faulty variant of CleanupExpiredEntry: the prefix is not looked at.
CleanupExpiredEntryAnyKey(k, entry) ==
    IF \/ entry.kind = "text"
       \/ entry.kind = "item" /\ Expired(entry.left)
    THEN Absent
    ELSE entry

\* One round of the loop of cleanupExpiredItems: item.expiry && now >
\* item.expiry removes, and so does the catch around JSON.parse.
CleanupExpiredEntry(k, entry) ==
    IF ~StartsWith(k, ANALYTICS_STORAGE_PREFIX)
    THEN entry
    ELSE IF \/ entry.kind = "text"
            \/ entry.kind = "item" /\ Expired(entry.left)
         THEN Absent
         ELSE entry

\* AnalyticsStorage.cleanupExpiredItems
CleanupExpiredItems(store, how) ==
    IF how = "ok"
    THEN [k \in RawKeys |-> CleanupExpiredEntry(k, store[k])]
    ELSE store

OldVisitorPrefix == Prefixed(<<"visitor_">>)

OldPrefixes ==
    {OldVisitorPrefix, Prefixed(<<"session_start_">>),
     Prefixed(<<"session_active_">>)}

\* One round of the loop of migrateOldFormat: an entry without "expiry":
\* under an old prefix is removed, and a visitor's recent timestamp is
\* written again by setVisitor, whose key is the one just removed.
MigrateEntry(k, entry) ==
    IF /\ \E prefix \in OldPrefixes : StartsWith(k, prefix)
       /\ entry.kind \in {"old", "text"}
    THEN IF /\ StartsWith(k, OldVisitorPrefix)
            /\ entry.kind = "old"
            /\ entry.left > 0
         THEN RawItem(<<"now">>, VISITOR)
         ELSE Absent
    ELSE entry

\* AnalyticsStorage.migrateOldFormat
MigrateOldFormat(store, how) ==
    IF how = "ok"
    THEN [k \in RawKeys |-> MigrateEntry(k, store[k])]
    ELSE store

\* AnalyticsSessionStorage.setItem on sessionStorage
RawSessionSetItem(store, key, value, how) ==
    IF how = "ok"
    THEN [store EXCEPT ![Prefixed(key)] = RawItem(value, 0)]
    ELSE store

\* AnalyticsSessionStorage.removeItem on sessionStorage
RawSessionRemoveItem(store, key, how) ==
    IF how = "ok" THEN [store EXCEPT ![Prefixed(key)] = Absent] ELSE store

RawOutcomes == {"ok", "throws"}

\* What an earlier version or other code left under a key.
Leftovers == {Absent, OldEntry(VISITOR), TextEntry}

\* The other code's entries are there from the start: text the adapter
\* could not parse, and under "theme" an item of its own that has expired.
ForeignEntry(k) ==
    IF k = <<"theme">> THEN RawItem(<<"theirs">>, -1) ELSE TextEntry

InitRaw ==
    /\ StartTracker({Null}, {"ok"}, {"prompt"})
    /\ production
    /\ ~botUA
    /\ ~hidden
    /\ pathname = "/a"
    /\ \E left \in [RawKeys \ ForeignKeys -> Leftovers] :
          raw = [local   |-> [k \in RawKeys |->
                                 IF k \in ForeignKeys
                                 THEN ForeignEntry(k)
                                 ELSE left[k]],
                 session |-> [k \in RawKeys |->
                                 IF k \in ForeignKeys
                                 THEN TextEntry
                                 ELSE Absent],
                 op      |-> "none"]

\* A call on localStorage through AnalyticsStorage.
RawLocalCall ==
    \E how \in RawOutcomes, key \in RawLogicalKeys, v \in RawVisitors,
       name \in {"setItem", "getItem", "removeItem", "setVisitor",
                 "hasVisitor", "cleanupOldSessionEntries",
                 "cleanupExpiredItems", "migrateOldFormat"} :
        /\ raw' = [raw EXCEPT
                      !.op = name,
                      !.local =
                          CASE name = "setItem" ->
                                   RawSetItem(@, key, <<"x">>, VISITOR, how)
                            [] name = "getItem" -> RawGetItem(@, key, how)
                            [] name = "removeItem" ->
                                   RawRemoveItem(@, key, how)
                            [] name = "setVisitor" ->
                                   RawSetVisitor(@, v, how)
                            [] name = "hasVisitor" ->
                                   RawHasVisitor(@, v, how)
                            [] name = "cleanupOldSessionEntries" ->
                                   CleanupOldSessionEntries(@, how)
                            [] name = "cleanupExpiredItems" ->
                                   CleanupExpiredItems(@, how)
                            [] OTHER -> MigrateOldFormat(@, how)]
        /\ UNCHANGED Rest

\* A call on sessionStorage through AnalyticsSessionStorage; getItem
\* writes nothing.
RawSessionCall ==
    \E how \in RawOutcomes, key \in RawLogicalKeys,
       name \in {"setItem", "getItem", "removeItem"} :
        /\ raw' = [raw EXCEPT
                      !.op = "session." \o name,
                      !.session =
                          CASE name = "setItem" ->
                                   RawSessionSetItem(@, key, <<"x">>, how)
                            [] name = "removeItem" ->
                                   RawSessionRemoveItem(@, key, how)
                            [] OTHER -> @]
        /\ UNCHANGED Rest

\* Ten days pass: every expiry and every timestamp is ten days nearer;
\* how long ago it passed is not followed.
RawAged(entry) ==
    IF entry.kind \in {"item", "old"}
    THEN [entry EXCEPT !.left = Max(@ - LongStep \div 1000, -1)]
    ELSE entry

RawTick ==
    /\ raw' = [raw EXCEPT !.op = "tick",
                          !.local = [k \in RawKeys |-> RawAged(@[k])]]
    /\ UNCHANGED Rest

NextRaw == RawLocalCall \/ RawSessionCall \/ RawTick

SpecRaw == InitRaw /\ [][NextRaw]_vars

\* C39: no operation of AnalyticsStorage or AnalyticsSessionStorage creates,
\* changes or removes an entry of localStorage or sessionStorage whose key
\* does not start with the analytics_ prefix.
C39_OnlyPrefixedKeysTouched ==
    [][raw'.op # "tick" =>
          \A k \in RawKeys :
              ~StartsWith(k, ANALYTICS_STORAGE_PREFIX) =>
                  /\ raw'.local[k] = raw.local[k]
                  /\ raw'.session[k] = raw.session[k]]_vars

\* migrateOldFormat has rewritten the visitor's old entry, the cleanup of
\* the sessions' entries has removed one, and the other code's entries of
\* the same names are still there.
C39_Witness ==
    /\ raw.op = "cleanupOldSessionEntries"
    /\ raw.local[Prefixed(VisitorKey(<<"v">>))] = RawItem(<<"now">>, VISITOR)
    /\ raw.local[Prefixed(<<"session_start_", "1">>)] = Absent
    /\ raw.local[<<"session_start_", "1">>] = TextEntry
    /\ raw.local[VisitorKey(<<"v">>)] = TextEntry
    /\ raw.local[<<"theme">>].kind = "item"
    /\ raw.session[VisitorIdKey] = TextEntry

====
